---- MODULE Spec2Model ----
(***************************************************************************)
(* A model of the accuracy-reporting and calibration scripts of m2sim2:    *)
(*   h5_accuracy_report.py, calculate_h5_accuracy.py,                      *)
(*   benchmarks/native/polybench_accuracy_report.py,                       *)
(*   scripts/h4_multicore_analysis.py, scripts/h4_2core_validation.py,     *)
(*   benchmarks/native/linear_calibration.py.                              *)
(*                                                                         *)
(* Numbers.  The scripts compute with floating-point numbers.  The model   *)
(* computes with exact rationals [k |-> "fin", n, d] (n/d in lowest terms, *)
(* d > 0) extended with the special results the scripts can produce:       *)
(* "inf" (float('inf')), "nan" (numpy 0/0) and "raise" (a Python           *)
(* ZeroDivisionError).  Rounding of binary floating point is modelled only *)
(* for simple_linear_regression (its "binary" arithmetic).                 *)
(*                                                                         *)
(* Lists.  A Python list the code only reads through len() and sum() is    *)
(* kept as the record [sum, len]; a list whose elements are read is kept   *)
(* as a sequence.                                                          *)
(***************************************************************************)
EXTENDS Integers, Sequences, FiniteSets, TLC

VARIABLES
    script,        \* which script (process) is running
    pc,            \* its position
    n_micro,       \* h5 report: len([c for c in comparisons if c.category == 'micro'])
    n_poly,        \* len of the PolyBench comparisons / calibrated_count;
                   \* 2-core validator: successful_validations
    all_errors,    \* [sum, len] of the errors that enter the average
    warned,        \* a "Warning: No simulator CPI ..." line has been printed
    t_sim,         \* simulator latency / CPI of the last comparison
    t_real,        \* hardware latency / CPI of the last comparison
    error,         \* the error value of the last comparison
    polybench_avg, \* calculate_h5_accuracy: polybench_avg_error
    aggregate,     \* overall_avg / combined_avg_error / avg_error
    exit_status,   \* process exit status (-1: still running)
    json_status,   \* the status written to the JSON results
    report_status, \* the status text of the Markdown report / validation result
    accuracy_met,  \* the accuracy-target flag the run reports
    values,        \* trimmed_mean: the values argument
    trim_percent,  \* trimmed_mean: the trim_percent argument
    tm_result,     \* trimmed_mean: the returned value
    data_x,        \* simple_linear_regression: x (instruction counts)
    data_y,        \* simple_linear_regression: y (times)
    fit_result,    \* simple_linear_regression: the returned triple or the error
    templates,     \* linear_calibration: the registry BENCHMARK_TEMPLATES
    gen_name,      \* generate_benchmark: the template_name argument
    gen_n,         \* generate_benchmark: the iterations argument
    gen_out,       \* generate_benchmark: the returned text or the raised error
    gen_log,       \* history: the (template_name, iterations, text) of every return
    requested,     \* linear_calibration.main: benchmark_names
    cal_idx,       \* main: position of the calibration loop in benchmark_names
    point_idx,     \* calibrate_benchmark: position in iteration_counts
    builds,        \* main: number of build_and_run calls made
    results_n,     \* main: len(results)
    files,         \* build_and_run: the files in the temporary directory
    invoked,       \* history: the subprocess.run calls completed, in order
    times,         \* build_and_run, run_benchmark: the list times
    runs,          \* the runs argument
    warmup,        \* the warmup argument
    launched,      \* runs of the executable started by the two loops so far
    expected,      \* the exit status the benchmark is built to end with
    collected,     \* what the collector returned or raised
    scaling_points,\* incremental_testing_validation: the caller's list of points
    passed,        \* history: the list as it was when analyze was last called
    analysis,      \* what analyze or the validation last returned or raised
    size_idx,      \* run_incremental_validation: position in the sizes
    measured,      \* history: the latest measurement: its position and outcome
    qa_mode,       \* diana_comprehensive_qa_validation.main: --full-suite or --benchmark
    qa_idx,        \* main: position in benchmarks
    qa_size_idx,   \* run_comprehensive_validation: position in the sizes
    qa_points,     \* run_comprehensive_validation: len(scaling_points)
    qa_result,     \* the QAValidationResult of the current benchmark
    all_results,   \* main: all_results
    reports,       \* the benchmarks whose report file has been written
    checklist,     \* the ticks of the checklist in the report last written
    summary_written, \* whether the suite summary file has been written
    cal_name,      \* calibrate_benchmark: the template_name argument
    cal_counts,    \* calibrate_benchmark: the iteration_counts argument
    cal_pos,       \* calibrate_benchmark: position of its loop in iteration_counts
    data_points,   \* calibrate_benchmark: data_points
    cal_failed,    \* history: build_and_run calls of this calibration that raised
    cal_result,    \* what calibrate_benchmark returned or raised
    mc_runs,       \* run_multicore_simulation: the runs argument
    mc_run,        \* run_multicore_simulation: runs of the loop completed
    simulation_results, \* run_multicore_simulation: simulation_results (the CPIs)
    mc_unparsed,   \* history: runs whose output had no parsable "Total CPI" line
    mc_result,     \* what run_multicore_simulation returned or raised
    h4_results,    \* H4MultiCoreAnalyzer: len of self.results per core count
    model_core,    \* build_statistical_model: the core_count argument
    stat_model,    \* what build_statistical_model returned
    statistical_models \* self.statistical_models: the core counts with a model

vars == << script, pc, n_micro, n_poly, all_errors, warned, t_sim, t_real, error,
           polybench_avg, aggregate, exit_status, json_status, report_status,
           accuracy_met, values, trim_percent, tm_result, data_x, data_y,
           fit_result, templates, gen_name, gen_n, gen_out, gen_log, requested,
           cal_idx, point_idx, builds, results_n, files, invoked, times, runs,
           warmup, launched, expected, collected, scaling_points, passed,
           analysis, size_idx, measured, qa_mode, qa_idx, qa_size_idx,
           qa_points, qa_result, all_results, reports, checklist,
           summary_written, cal_name, cal_counts, cal_pos, data_points,
           cal_failed, cal_result, mc_runs, mc_run, simulation_results,
           mc_unparsed, mc_result, h4_results, model_core, stat_model,
           statistical_models >>

accVars == << n_micro, n_poly, all_errors, warned, t_sim, t_real, error,
              polybench_avg, aggregate, exit_status, json_status, report_status,
              accuracy_met >>

statVars == << values, trim_percent, tm_result >>

fitVars == << data_x, data_y, fit_result >>

genVars == << templates, gen_name, gen_n, gen_out, gen_log, requested, cal_idx,
              point_idx, builds, results_n >>

buildVars == << files, invoked, times, runs, warmup, launched, expected,
                collected >>

scanVars == << scaling_points, passed, analysis, size_idx, measured >>

qaVars == << qa_mode, qa_idx, qa_size_idx, qa_points, qa_result, all_results,
            reports, checklist, summary_written >>

calVars == << cal_name, cal_counts, cal_pos, data_points, cal_failed,
             cal_result >>

h4Vars == << mc_runs, mc_run, simulation_results, mc_unparsed, mc_result,
            h4_results, model_core, stat_model, statistical_models >>

restVars == << calVars, h4Vars >>

moreVars == << qaVars, restVars >>

toolVars == << genVars, buildVars, scanVars, moreVars >>

----------------------------------------------------------------------------
(* Bounds of the model. *)

\* Most microbenchmark entries compared in one h5_accuracy_report run.
MaxMicro == 11
\* Most PolyBench entries compared in one h5_accuracy_report run.
MaxPoly == 5
\* Most PolyBench entries compared in one run of calculate_h5_accuracy or of
\* polybench_accuracy_report.
MaxPolyOnly == 7
\* Most results in one multi-core report or 2-core validation run.
MaxResults == 3
\* Longest list of values passed to trimmed_mean (besides the two listed examples).
MaxValues == 5
\* Most data points passed to simple_linear_regression.
MaxPoints == 3

\* linear_calibration.main: at most this many names after --benchmarks.
MaxRequested == 2

\* build_and_run, run_benchmark: the greatest runs and warmup arguments.
MaxRuns == 2
MaxWarmup == 2

\* analyze_scaling_correlation: the longest list a caller passes directly.
MaxScalingPoints == 4

----------------------------------------------------------------------------
(* Exact rational arithmetic with the special float results. *)

RECURSIVE GCD(_, _)
GCD(a, b) == IF b = 0 THEN a ELSE GCD(b, a % b)

IntAbs(i) == IF i < 0 THEN -i ELSE i

Fin(n, d) ==
    LET g == GCD(IntAbs(n), IntAbs(d))
        s == IF d < 0 THEN -1 ELSE 1
    IN  [k |-> "fin", n |-> (s * n) \div g, d |-> (s * d) \div g]

Inf == [k |-> "inf", n |-> 1, d |-> 0]
NaN == [k |-> "nan", n |-> 0, d |-> 0]
\* A raised ZeroDivisionError, as the result of a division.
ZeroDivisionError == [k |-> "raise", n |-> 0, d |-> 0]
\* No value (a variable not assigned yet).
None == [k |-> "none", n |-> 0, d |-> 0]

Zero == Fin(0, 1)
IsFin(a) == a.k = "fin"
IsZero(a) == a.k = "fin" /\ a.n = 0

\* a + b on floats: nan absorbs, then inf (the model has no negative infinity).
FAdd(a, b) ==
    IF a.k = "nan" \/ b.k = "nan" THEN NaN
    ELSE IF a.k = "inf" \/ b.k = "inf" THEN Inf
    ELSE LET g == GCD(a.d, b.d)
         IN  Fin(a.n * (b.d \div g) + b.n * (a.d \div g), (a.d \div g) * b.d)

\* a - b on finite floats.
FSub(a, b) ==
    LET g == GCD(a.d, b.d)
    IN  Fin(a.n * (b.d \div g) - b.n * (a.d \div g), (a.d \div g) * b.d)

\* a * b on floats (b finite and positive wherever the model uses it).
FMul(a, b) ==
    IF a.k = "fin"
    THEN LET g1 == GCD(IntAbs(a.n), b.d)
             g2 == GCD(IntAbs(b.n), a.d)
         IN  Fin((a.n \div g1) * (b.n \div g2), (a.d \div g2) * (b.d \div g1))
    ELSE a

\* abs(a)
FAbs(a) == IF a.k = "fin" THEN Fin(IntAbs(a.n), a.d) ELSE a

\* a < b on floats: every comparison with nan is False.
FLt(a, b) ==
    IF a.k = "nan" \/ b.k = "nan" THEN FALSE
    ELSE IF a.k = "inf" THEN FALSE
    ELSE IF b.k = "inf" THEN TRUE
    ELSE LET g == GCD(a.d, b.d)
         IN  a.n * (b.d \div g) < b.n * (a.d \div g)

\* a <= b on floats.
FLe(a, b) ==
    IF a.k = "nan" \/ b.k = "nan" THEN FALSE
    ELSE IF b.k = "inf" THEN TRUE
    ELSE IF a.k = "inf" THEN FALSE
    ELSE LET g == GCD(a.d, b.d)
         IN  a.n * (b.d \div g) <= b.n * (a.d \div g)

\* Python's min(a, b) on finite floats: b unless a < b.
FMin(a, b) == IF FLt(a, b) THEN a ELSE b

\* a / b on Python floats: a zero divisor raises ZeroDivisionError.
PyDiv(a, b) ==
    IF IsZero(b) THEN ZeroDivisionError
    ELSE IF a.k = "fin"
    THEN FMul(a, [k |-> "fin", n |-> (IF b.n < 0 THEN -b.d ELSE b.d), d |-> IntAbs(b.n)])
    ELSE a

\* a / b on numpy float64 scalars: x/0 is inf, 0/0 is nan (a warning, no error).
NpDiv(a, b) ==
    IF IsZero(b) THEN (IF IsZero(a) THEN NaN ELSE Inf)
    ELSE IF a.k = "fin" THEN Fin(a.n * b.d, a.d * b.n)
    ELSE a

\* sum(xs) / len(xs) for the list summarised as s = [sum, len], len > 0.
Mean(s) == PyDiv(s.sum, Fin(s.len, 1))

\* xs.append(e) on the summary.
Append1(s, e) == [sum |-> FAdd(s.sum, e), len |-> s.len + 1]

EmptyList == [sum |-> Zero, len |-> 0]

----------------------------------------------------------------------------
(* Program constants of the accuracy scripts. *)

\* frequency_ghz = 3.5 / assumed_frequency_ghz = 3.5
frequency_ghz == Fin(7, 2)
\* The error target 0.20 / 0.2 of the H5 and H4 gates.
target_error == Fin(1, 5)
\* target_benchmarks: the H5 benchmark-count target.
target_benchmarks == 15
\* micro_results["benchmark_count"] of calculate_h5_accuracy.
micro_benchmark_count == 11
\* micro_results["average_error"] = 0.144 of calculate_h5_accuracy.
micro_average_error == Fin(18, 125)
\* validation_targets["accuracy_threshold"] = 25.0 (percent), 2-core validator.
accuracy_threshold == Fin(25, 1)
\* The "excellent accuracy" limit 15.0 (percent) of the 2-core validator.
excellent_threshold == Fin(15, 1)
\* polybench_cpis['3mm'] = 0.35, the simulator CPI the model compares PolyBench with.
polybench_sim_cpi == Fin(7, 20)
\* micro_cpis["vectorsum"] = 0.500, the simulator CPI the model compares micro with.
micro_sim_cpi == Fin(1, 2)
\* simulator_cpis["3mm"] = 1.8 of polybench_accuracy_report.
report_sim_cpi == Fin(9, 5)
\* validation_targets["minimum_benchmarks"] of the 2-core validator.
minimum_benchmarks == 3
\* The fixed simulator CPIs of the 2-core validator (parsed 1.1, estimated 1.2).
TwoCoreSimCpis == {Fin(11, 10), Fin(6, 5)}

(* Inputs.  A hardware latency read from a calibration file is drawn as a   *)
(* multiple of the simulator latency it is compared with: 0 (a zero        *)
(* latency), 1 (error 0), 5/6 (error 0.2, hardware below), 7/5 (error      *)
(* 0.4, hardware above), and for the two PolyBench-only scripts also       *)
(* 10/11 (error 0.1) and 5/4 (error 0.25).                                 *)
LatencyRatios == {Fin(0, 1), Fin(1, 1), Fin(5, 6), Fin(7, 5)}
PolyLatencyRatios == {Fin(0, 1), Fin(1, 1), Fin(5, 6), Fin(10, 11), Fin(5, 4)}
RealLatencies(sim) == {FMul(sim, r) : r \in LatencyRatios}
PolyRealLatencies(sim) == {FMul(sim, r) : r \in PolyLatencyRatios}
\* Arguments of a single compare call (0, and the pairs 2.0/2.5, 0.1/0.125).
Latencies == {Fin(0, 1), Fin(1, 10), Fin(1, 8), Fin(1, 5), Fin(2, 1), Fin(5, 2)}
\* CPI values of a multi-core result (numpy float64 means).
H4Cpis == {Fin(0, 1), Fin(1, 1), Fin(5, 4)}
\* estimated_cpi of the 2-core hardware baseline (3.5/gops, or 1/1.5; 0.0 when
\* the benchmark prints an infinite throughput).
TwoCoreHwCpis == {Fin(0, 1), Fin(2, 3), Fin(1, 1), Fin(11, 10)}

----------------------------------------------------------------------------
(* The error formula at each place it is computed. *)

\* h5_accuracy_report.calculate_error with the denominator t_real (a faulty variant).
calculate_error_RealDenominator(ts, tr) ==
    IF IsZero(tr) THEN Inf ELSE PyDiv(FAbs(FSub(ts, tr)), tr)

\* h5_accuracy_report.calculate_error(t_sim, t_real)
calculate_error(ts, tr) ==
    IF IsZero(FMin(ts, tr)) THEN Inf
    ELSE PyDiv(FAbs(FSub(ts, tr)), FMin(ts, tr))

\* abs(sim - real) / min(sim, real) on Python floats: calculate_h5_accuracy line 65,
\* polybench_accuracy_report line 73, h4_2core_validation line 977.
InlineError(ts, tr) == PyDiv(FAbs(FSub(ts, tr)), FMin(ts, tr))

\* abs(sim_cpi - hw_cpi) / min(sim_cpi, hw_cpi) on numpy float64:
\* h4_multicore_analysis lines 391 and 616.
NumpyError(ts, tr) == NpDiv(FAbs(FSub(ts, tr)), FMin(ts, tr))

----------------------------------------------------------------------------
(* The gates. *)

\* overall_avg = sum(all_errors) / len(all_errors) if all_errors else 0
\* (h5_accuracy_report lines 195, 286/289, 360; polybench report line 91;
\* h4_multicore_analysis line 645).
AverageOrZero(errs) == IF errs.len > 0 THEN Mean(errs) ELSE Zero

\* The gate with a non-strict error comparison (a faulty variant).
MainH5Complete_Le(n, avg) == n >= target_benchmarks /\ FLe(avg, target_error)

\* h5_accuracy_report.main: h5_complete = len(comparisons) >= 15 and overall_avg < 0.2
MainH5Complete(n, avg) == n >= target_benchmarks /\ FLt(avg, target_error)

\* generate_h5_report: the H5 status text.
ReportStatusText(n, avg) ==
    LET benchmark_count_met == n >= target_benchmarks
        acc_met == FLt(avg, target_error)
    IN  IF benchmark_count_met /\ acc_met THEN "COMPLETE"
        ELSE IF benchmark_count_met /\ ~acc_met THEN "PARTIAL"
        ELSE "INCOMPLETE"

\* The JSON status decided on the count alone (a faulty variant).
JsonStatus_CountOnly(n, errs) ==
    IF n >= target_benchmarks THEN "complete" ELSE "incomplete"

\* generate_h5_json_results: h5_milestone.status
JsonStatus(n, errs) ==
    IF n >= target_benchmarks /\ FLt(AverageOrZero(errs), target_error)
    THEN "complete" ELSE "incomplete"

\* The combined error as the unweighted mean of the two category means (a faulty variant).
CombinedAvgError_Unweighted(polybench_avg_error, polybench_count) ==
    PyDiv(FAdd(micro_average_error, polybench_avg_error), Fin(2, 1))

\* calculate_h5_accuracy lines 76-82: the count-weighted combination.
CombinedAvgError(polybench_avg_error, polybench_count) ==
    LET total_benchmarks == micro_benchmark_count + polybench_count
        micro_weight == Fin(micro_benchmark_count, total_benchmarks)
        polybench_weight == Fin(polybench_count, total_benchmarks)
    IN  FAdd(FMul(micro_average_error, micro_weight),
             FMul(polybench_avg_error, polybench_weight))

\* calculate_h5_accuracy lines 93-100: h5_complete
CalcH5Complete(total_benchmarks, combined_avg_error) ==
    LET benchmark_target_met == total_benchmarks >= target_benchmarks
        accuracy_target_met == FLt(combined_avg_error, target_error)
    IN  benchmark_target_met /\ accuracy_target_met

----------------------------------------------------------------------------
(* State. *)

AccInit ==
    /\ n_micro = 0
    /\ n_poly = 0
    /\ all_errors = EmptyList
    /\ warned = FALSE
    /\ t_sim = None
    /\ t_real = None
    /\ error = None
    /\ polybench_avg = None
    /\ aggregate = None
    /\ exit_status = -1
    /\ json_status = ""
    /\ report_status = ""
    /\ accuracy_met = FALSE

\* No regression result yet.
NoFit == [k |-> "none", slope |-> None, intercept |-> None, r_squared |-> None]

StatInit ==
    /\ values = << >>
    /\ trim_percent = None
    /\ tm_result = None

FitInit ==
    /\ data_x = << >>
    /\ data_y = << >>
    /\ fit_result = NoFit

\* BENCHMARK_TEMPLATES: each template is its text cut at the placeholders of
\* str.format; two of the eleven entries, one for each placeholder set in use.
BENCHMARK_TEMPLATES ==
    [name \in {"arithmetic", "reductiontree"} |->
        IF name = "arithmetic"
        THEN [template |-> << "// arithmetic_calibration.s - Generated for ",
                              "{iterations}", " iterations ... ",
                              "{load_iterations}", " ... svc #0x80" >>]
        ELSE [template |-> << "// reductiontree_calibration.s - Generated for ",
                              "{iterations}", " iterations ... ",
                              "{load_iterations_x21}", " ... svc #0x80" >>]]

NoText == [k |-> "none"]

GenInit ==
    /\ templates = BENCHMARK_TEMPLATES
    /\ gen_name = ""
    /\ gen_n = None
    /\ gen_out = NoText
    /\ gen_log = {}
    /\ requested = << >>
    /\ cal_idx = 0
    /\ point_idx = 0
    /\ builds = 0
    /\ results_n = 0

NoResult == [k |-> "none"]

BuildInit ==
    /\ files = {}
    /\ invoked = << >>
    /\ times = << >>
    /\ runs = 0
    /\ warmup = 0
    /\ launched = 0
    /\ expected = 0
    /\ collected = NoResult

NotMeasured == [idx |-> 0, outcome |-> "none"]

ScanInit ==
    /\ scaling_points = << >>
    /\ passed = << >>
    /\ analysis = NoResult
    /\ size_idx = 0
    /\ measured = NotMeasured

NoChecklist == [k |-> "none"]

QAInit ==
    /\ qa_mode = ""
    /\ qa_idx = 0
    /\ qa_size_idx = 0
    /\ qa_points = 0
    /\ qa_result = NoResult
    /\ all_results = << >>
    /\ reports = {}
    /\ checklist = NoChecklist
    /\ summary_written = FALSE

CalInit ==
    /\ cal_name = ""
    /\ cal_counts = << >>
    /\ cal_pos = 0
    /\ data_points = << >>
    /\ cal_failed = 0
    /\ cal_result = NoResult

H4Init ==
    /\ mc_runs = 0
    /\ mc_run = 0
    /\ simulation_results = << >>
    /\ mc_unparsed = 0
    /\ mc_result = NoResult
    /\ h4_results = [c \in {2, 4} |-> 0]
    /\ model_core = 0
    /\ stat_model = NoResult
    /\ statistical_models = {}

Init ==
    /\ script = "none"
    /\ pc = "idle"
    /\ AccInit
    /\ StatInit
    /\ FitInit
    /\ GenInit
    /\ BuildInit
    /\ ScanInit
    /\ QAInit
    /\ CalInit
    /\ H4Init

\* A script is started from the shell.
Start(name, first) ==
    /\ pc = "idle"
    /\ script' = name
    /\ pc' = first

\* The process has ended; the next run starts from a fresh process.
NextRun ==
    /\ pc \in {"done", "crashed"}
    /\ script' = "none"
    /\ pc' = "idle"
    /\ n_micro' = 0
    /\ n_poly' = 0
    /\ all_errors' = EmptyList
    /\ warned' = FALSE
    /\ t_sim' = None
    /\ t_real' = None
    /\ error' = None
    /\ polybench_avg' = None
    /\ aggregate' = None
    /\ exit_status' = -1
    /\ json_status' = ""
    /\ report_status' = ""
    /\ accuracy_met' = FALSE
    /\ values' = << >>
    /\ trim_percent' = None
    /\ tm_result' = None
    /\ data_x' = << >>
    /\ data_y' = << >>
    /\ fit_result' = NoFit
    /\ templates' = BENCHMARK_TEMPLATES
    /\ gen_name' = ""
    /\ gen_n' = None
    /\ gen_out' = NoText
    /\ gen_log' = {}
    /\ requested' = << >>
    /\ cal_idx' = 0
    /\ point_idx' = 0
    /\ builds' = 0
    /\ results_n' = 0
    /\ files' = {}
    /\ invoked' = << >>
    /\ times' = << >>
    /\ runs' = 0
    /\ warmup' = 0
    /\ launched' = 0
    /\ expected' = 0
    /\ collected' = NoResult
    /\ scaling_points' = << >>
    /\ passed' = << >>
    /\ analysis' = NoResult
    /\ size_idx' = 0
    /\ measured' = NotMeasured
    /\ qa_mode' = ""
    /\ qa_idx' = 0
    /\ qa_size_idx' = 0
    /\ qa_points' = 0
    /\ qa_result' = NoResult
    /\ all_results' = << >>
    /\ reports' = {}
    /\ checklist' = NoChecklist
    /\ summary_written' = FALSE
    /\ cal_name' = ""
    /\ cal_counts' = << >>
    /\ cal_pos' = 0
    /\ data_points' = << >>
    /\ cal_failed' = 0
    /\ cal_result' = NoResult
    /\ mc_runs' = 0
    /\ mc_run' = 0
    /\ simulation_results' = << >>
    /\ mc_unparsed' = 0
    /\ mc_result' = NoResult
    /\ h4_results' = [c \in {2, 4} |-> 0]
    /\ model_core' = 0
    /\ stat_model' = NoResult
    /\ statistical_models' = {}

\* An uncaught exception ends the process with status 1.
Crash ==
    /\ pc' = "crashed"
    /\ exit_status' = 1

----------------------------------------------------------------------------
(* A single compare call (the pure function applied to drawn arguments). *)

\* calculate_error(t_sim, t_real) of h5_accuracy_report.
CalculateErrorCall ==
    /\ Start("compare_report", "done")
    /\ \E a \in Latencies, b \in Latencies :
          /\ t_sim' = a
          /\ t_real' = b
          /\ error' = calculate_error(a, b)
    /\ exit_status' = 0
    /\ UNCHANGED << n_micro, n_poly, all_errors, warned, polybench_avg, aggregate,
                    json_status, report_status, accuracy_met >>
    /\ UNCHANGED << statVars, fitVars, toolVars >>

\* The inline formula of calculate_h5_accuracy (line 65); a zero minimum raises.
InlineErrorCall ==
    /\ Start("compare_inline", "done")
    /\ \E a \in Latencies, b \in Latencies :
          /\ t_sim' = a
          /\ t_real' = b
          /\ error' = InlineError(a, b)
    /\ exit_status' = 0
    /\ UNCHANGED << n_micro, n_poly, all_errors, warned, polybench_avg, aggregate,
                    json_status, report_status, accuracy_met >>
    /\ UNCHANGED << statVars, fitVars, toolVars >>

----------------------------------------------------------------------------
(* h5_accuracy_report.py *)

H5R_Start ==
    /\ Start("h5_report", "h5r_micro")
    /\ UNCHANGED << accVars, statVars, fitVars, toolVars >>

\* compare_all_benchmarks, one iteration of a loop that appends a comparison.
\* Only the errors of calibrated comparisons enter all_errors.
H5R_Compare(sim_cpi) ==
    LET sim_latency_ns == PyDiv(sim_cpi, frequency_ghz)
    IN  \E real_latency_ns \in RealLatencies(sim_latency_ns), calibrated \in BOOLEAN :
          /\ t_sim' = sim_latency_ns
          /\ t_real' = real_latency_ns
          /\ error' = calculate_error(sim_latency_ns, real_latency_ns)
          /\ all_errors' = IF calibrated THEN Append1(all_errors, error') ELSE all_errors

\* lines 134-155: a microbenchmark entry with a simulator CPI.
H5R_CompareMicro ==
    /\ pc = "h5r_micro"
    /\ n_micro < MaxMicro
    /\ H5R_Compare(micro_sim_cpi)
    /\ n_micro' = n_micro + 1
    /\ UNCHANGED << script, pc, n_poly, warned, polybench_avg, aggregate, exit_status,
                    json_status, report_status, accuracy_met >>
    /\ UNCHANGED << statVars, fitVars, toolVars >>

\* lines 136-138 / 160-162: an entry without a simulator CPI is skipped with a warning.
H5R_Skip ==
    /\ pc \in {"h5r_micro", "h5r_poly"}
    /\ warned' = TRUE
    /\ UNCHANGED << script, pc, n_micro, n_poly, all_errors, t_sim, t_real, error,
                    polybench_avg, aggregate, exit_status, json_status,
                    report_status, accuracy_met >>
    /\ UNCHANGED << statVars, fitVars, toolVars >>

\* The microbenchmark results are exhausted.
H5R_EndMicro ==
    /\ pc = "h5r_micro"
    /\ pc' = "h5r_poly"
    /\ UNCHANGED << script, accVars, statVars, fitVars, toolVars >>

\* lines 158-179: a PolyBench entry with a simulator CPI.
H5R_ComparePoly ==
    /\ pc = "h5r_poly"
    /\ n_poly < MaxPoly
    /\ H5R_Compare(polybench_sim_cpi)
    /\ n_poly' = n_poly + 1
    /\ UNCHANGED << script, pc, n_micro, warned, polybench_avg, aggregate, exit_status,
                    json_status, report_status, accuracy_met >>
    /\ UNCHANGED << statVars, fitVars, toolVars >>

\* main lines 356-384 with generate_h5_report and generate_h5_json_results:
\* the PolyBench results are exhausted, the summary is printed, both outputs are
\* written and the exit status is returned.
H5R_Main ==
    /\ pc = "h5r_poly"
    /\ LET len_comparisons == n_micro + n_poly
           overall_avg == AverageOrZero(all_errors)
           h5_complete == MainH5Complete(len_comparisons, overall_avg)
       IN  /\ aggregate' = overall_avg
           /\ report_status' = ReportStatusText(len_comparisons, AverageOrZero(all_errors))
           /\ accuracy_met' = FLt(AverageOrZero(all_errors), target_error)
           /\ json_status' = JsonStatus(len_comparisons, all_errors)
           /\ exit_status' = IF h5_complete THEN 0 ELSE 1
    /\ pc' = "done"
    /\ UNCHANGED << script, n_micro, n_poly, all_errors, warned, t_sim, t_real, error,
                    polybench_avg >>
    /\ UNCHANGED << statVars, fitVars, toolVars >>

----------------------------------------------------------------------------
(* calculate_h5_accuracy.py *)

H5C_Start ==
    /\ Start("h5_calc", "h5c_loop")
    /\ UNCHANGED << accVars, statVars, fitVars, toolVars >>

\* lines 56-68: a result whose name has a simulator CPI.  (A result whose name has
\* none changes nothing.)  A zero minimum raises ZeroDivisionError, uncaught.
H5C_Compare ==
    /\ pc = "h5c_loop"
    /\ all_errors.len < MaxPolyOnly
    /\ LET sim_latency_ns == PyDiv(polybench_sim_cpi, frequency_ghz)
       IN  \E real_latency_ns \in PolyRealLatencies(sim_latency_ns) :
             /\ t_sim' = sim_latency_ns
             /\ t_real' = real_latency_ns
             /\ error' = InlineError(sim_latency_ns, real_latency_ns)
             /\ IF error'.k = "raise"
                THEN Crash /\ UNCHANGED all_errors
                ELSE /\ all_errors' = Append1(all_errors, error')
                     /\ UNCHANGED << pc, exit_status >>
    /\ UNCHANGED << script, n_micro, n_poly, warned, polybench_avg, aggregate,
                    json_status, report_status, accuracy_met >>
    /\ UNCHANGED << statVars, fitVars, toolVars >>

\* lines 70-134: the averages, the gate, the JSON results and the exit status.
\* With no PolyBench error the first division raises ZeroDivisionError.
H5C_Finish ==
    /\ pc = "h5c_loop"
    /\ LET polybench_errors == all_errors
           polybench_avg_error == Mean(polybench_errors)
           polybench_count == polybench_errors.len
           total_benchmarks == micro_benchmark_count + polybench_count
           combined_avg_error == CombinedAvgError(polybench_avg_error, polybench_count)
           h5_complete == CalcH5Complete(total_benchmarks, combined_avg_error)
       IN  IF polybench_avg_error.k = "raise"
           THEN /\ Crash
                /\ UNCHANGED << n_poly, polybench_avg, aggregate, json_status,
                                report_status, accuracy_met >>
           ELSE /\ pc' = "done"
                /\ n_poly' = polybench_count
                /\ polybench_avg' = polybench_avg_error
                /\ aggregate' = combined_avg_error
                /\ accuracy_met' = FLt(combined_avg_error, target_error)
                /\ report_status' = IF h5_complete THEN "COMPLETE" ELSE "INCOMPLETE"
                /\ json_status' = IF h5_complete THEN "complete" ELSE "incomplete"
                /\ exit_status' = IF h5_complete THEN 0 ELSE 1
    /\ UNCHANGED << script, n_micro, all_errors, warned, t_sim, t_real, error >>
    /\ UNCHANGED << statVars, fitVars, toolVars >>

----------------------------------------------------------------------------
(* benchmarks/native/polybench_accuracy_report.py *)

PR_Start ==
    /\ Start("polybench_report", "pr_loop")
    /\ UNCHANGED << accVars, statVars, fitVars, toolVars >>

\* lines 65-67: no simulator CPI estimate: a warning, and the entry is skipped.
PR_Skip ==
    /\ pc = "pr_loop"
    /\ warned' = TRUE
    /\ UNCHANGED << script, pc, n_micro, n_poly, all_errors, t_sim, t_real, error,
                    polybench_avg, aggregate, exit_status, json_status,
                    report_status, accuracy_met >>
    /\ UNCHANGED << statVars, fitVars, toolVars >>

\* lines 69-88: total_error += error; calibrated_count += 1.
PR_Compare ==
    /\ pc = "pr_loop"
    /\ n_poly < MaxPolyOnly
    /\ LET sim_latency_ns == PyDiv(report_sim_cpi, frequency_ghz)
       IN  \E hw_latency_ns \in PolyRealLatencies(sim_latency_ns) :
             /\ t_sim' = sim_latency_ns
             /\ t_real' = hw_latency_ns
             /\ error' = InlineError(sim_latency_ns, hw_latency_ns)
             /\ IF error'.k = "raise"
                THEN Crash /\ UNCHANGED << all_errors, n_poly >>
                ELSE /\ all_errors' = Append1(all_errors, error')
                     /\ n_poly' = n_poly + 1
                     /\ UNCHANGED << pc, exit_status >>
    /\ UNCHANGED << script, n_micro, warned, polybench_avg, aggregate,
                    json_status, report_status, accuracy_met >>
    /\ UNCHANGED << statVars, fitVars, toolVars >>

\* lines 90-176: the average, the H5 assessment, both outputs, the exit status.
PR_Finish ==
    /\ pc = "pr_loop"
    /\ LET total_error == all_errors.sum
           calibrated_count == n_poly
           avg_error == IF calibrated_count > 0
                        THEN PyDiv(total_error, Fin(calibrated_count, 1)) ELSE Zero
           success == FLt(avg_error, target_error)
       IN  /\ aggregate' = avg_error
           /\ accuracy_met' = success
           /\ json_status' = IF success THEN "h5_target_met" ELSE "h5_target_missed"
           /\ report_status' = IF success THEN "ACHIEVED" ELSE "NOT ACHIEVED"
           /\ exit_status' = IF success THEN 0 ELSE 1
    /\ pc' = "done"
    /\ UNCHANGED << script, n_micro, n_poly, all_errors, warned, t_sim, t_real, error,
                    polybench_avg >>
    /\ UNCHANGED << statVars, fitVars, toolVars >>

----------------------------------------------------------------------------
(* scripts/h4_multicore_analysis.py *)

H4_Start ==
    /\ Start("h4_report", "h4_loop")
    /\ UNCHANGED << accVars, statVars, fitVars, toolVars >>

\* analyze_multicore_accuracy appends a result (sim_cpi, hw_cpi: numpy means);
\* generate_h4_accuracy_report lines 615-618 computes its error and appends it.
H4_Error ==
    /\ pc = "h4_loop"
    /\ all_errors.len < MaxResults
    /\ \E sim_cpi \in H4Cpis, hw_cpi \in H4Cpis :
          /\ t_sim' = sim_cpi
          /\ t_real' = hw_cpi
          /\ error' = NumpyError(sim_cpi, hw_cpi)
          /\ all_errors' = Append1(all_errors, error')
    /\ UNCHANGED << script, pc, n_micro, n_poly, warned, polybench_avg, aggregate,
                    exit_status, json_status, report_status, accuracy_met >>
    /\ UNCHANGED << statVars, fitVars, toolVars >>

\* generate_h4_accuracy_report lines 644-660: the overall assessment.
H4_Report ==
    /\ pc = "h4_loop"
    /\ LET overall_avg_error == AverageOrZero(all_errors)
       IN  /\ aggregate' = overall_avg_error
           /\ accuracy_met' = FLt(overall_avg_error, target_error)
           /\ json_status' = IF FLt(overall_avg_error, target_error)
                             THEN "h4_target_met" ELSE "h4_target_missed"
           /\ report_status' = IF FLe(target_error, overall_avg_error)
                               THEN "NOT ACHIEVED" ELSE "ACHIEVED"
    /\ exit_status' = 0
    /\ pc' = "done"
    /\ UNCHANGED << script, n_micro, n_poly, all_errors, warned, t_sim, t_real, error,
                    polybench_avg >>
    /\ UNCHANGED << statVars, fitVars, toolVars >>

----------------------------------------------------------------------------
(* scripts/h4_2core_validation.py *)

TC_Start ==
    /\ Start("two_core", "tc_loop")
    /\ UNCHANGED << accVars, statVars, fitVars, toolVars >>

\* _analyze_benchmark_accuracy lines 975-989: the validation status.
ValidationStatus(accuracy_error) ==
    IF FLe(accuracy_error, accuracy_threshold)
    THEN (IF FLe(accuracy_error, excellent_threshold) THEN "pass" ELSE "warning")
    ELSE "fail"

\* _validate_single_benchmark with _analyze_benchmark_accuracy, and lines 735-744
\* of run_validation_suite: an exception (the ZeroDivisionError of a zero minimum)
\* is caught, the benchmark gets no result.
TC_Validate ==
    /\ pc = "tc_loop"
    /\ all_errors.len < MaxResults
    /\ \E hw_cpi \in TwoCoreHwCpis, sim_cpi \in TwoCoreSimCpis :
          LET e == InlineError(sim_cpi, hw_cpi)
              accuracy_error == FMul(e, Fin(100, 1))
          IN  /\ t_sim' = sim_cpi
              /\ t_real' = hw_cpi
              /\ error' = accuracy_error
              /\ IF e.k = "raise"
                 THEN /\ report_status' = "EXECUTION ERROR"
                      /\ UNCHANGED << all_errors, n_poly >>
                 ELSE /\ report_status' = ValidationStatus(accuracy_error)
                      /\ all_errors' = Append1(all_errors, accuracy_error)
                      /\ n_poly' = IF report_status' \in {"pass", "warning"}
                                   THEN n_poly + 1 ELSE n_poly
    /\ UNCHANGED << script, pc, n_micro, warned, polybench_avg, aggregate,
                    exit_status, json_status, accuracy_met >>
    /\ UNCHANGED << statVars, fitVars, toolVars >>

\* run_validation_suite lines 746-765 with _analyze_validation_results: the
\* coherence overheads are the fixed 5% / 8%, below the 20% limit.
TC_Finish ==
    /\ pc = "tc_loop"
    /\ LET successful_validations == n_poly
           avg_error == Mean(all_errors)
           accuracy_success == FLe(avg_error, accuracy_threshold)
       IN  IF successful_validations >= minimum_benchmarks
           THEN /\ aggregate' = avg_error
                /\ accuracy_met' = accuracy_success
                /\ exit_status' = IF accuracy_success THEN 0 ELSE 1
           ELSE /\ exit_status' = 1
                /\ UNCHANGED << aggregate, accuracy_met >>
    /\ pc' = "done"
    /\ UNCHANGED << script, n_micro, n_poly, all_errors, warned, t_sim, t_real, error,
                    polybench_avg, json_status, report_status >>
    /\ UNCHANGED << statVars, fitVars, toolVars >>

----------------------------------------------------------------------------
AccNext ==
    \/ CalculateErrorCall
    \/ InlineErrorCall
    \/ H5R_Start
    \/ H5R_CompareMicro
    \/ H5R_Skip
    \/ H5R_EndMicro
    \/ H5R_ComparePoly
    \/ H5R_Main
    \/ H5C_Start
    \/ H5C_Compare
    \/ H5C_Finish
    \/ PR_Start
    \/ PR_Skip
    \/ PR_Compare
    \/ PR_Finish
    \/ H4_Start
    \/ H4_Error
    \/ H4_Report
    \/ TC_Start
    \/ TC_Validate
    \/ TC_Finish
    \/ NextRun

\* The accuracy scripts.
Spec == Init /\ [][AccNext]_vars

----------------------------------------------------------------------------
(* benchmarks/native/linear_calibration.py: trimmed_mean *)

\* All sequences over S of length at most n.
SeqsUpTo(S, n) == UNION {[1..m -> S] : m \in 0..n}

\* sum(xs) for a sequence of integers.
RECURSIVE SumInts(_)
SumInts(xs) == IF xs = << >> THEN 0 ELSE Head(xs) + SumInts(Tail(xs))

\* v inserted into the ascending sequence xs, after the elements equal to it.
RECURSIVE Insert(_, _)
Insert(xs, v) ==
    IF xs = << >> THEN << v >>
    ELSE IF v < Head(xs) THEN << v >> \o xs
    ELSE << Head(xs) >> \o Insert(Tail(xs), v)

\* sorted(xs): ascending.
RECURSIVE Sorted(_)
Sorted(xs) ==
    IF xs = << >> THEN << >>
    ELSE Insert(Sorted(SubSeq(xs, 1, Len(xs) - 1)), xs[Len(xs)])

\* int(n * trim_percent) for a non-negative fraction: truncation.
TrimCount(n, tp) == (n * tp.n) \div tp.d

\* sum(xs) / len(xs) for a sequence of integers; an empty one raises.
PlainMean(xs) == PyDiv(Fin(SumInts(xs), 1), Fin(Len(xs), 1))

\* trimmed_mean that trims the unsorted values (a faulty variant).
trimmed_mean_Unsorted(vals, tp) ==
    LET n == Len(vals)
        trim_count == TrimCount(n, tp)
        trimmed == SubSeq(vals, trim_count + 1, n - trim_count)
    IN  IF n < 3 \/ trim_count = 0 THEN PlainMean(vals)
        ELSE IF trimmed # << >> THEN PlainMean(trimmed) ELSE PlainMean(vals)

\* trimmed_mean(values, trim_percent)
trimmed_mean(vals, tp) ==
    IF Len(vals) < 3 THEN PlainMean(vals)
    ELSE LET sorted_vals == Sorted(vals)
             n == Len(sorted_vals)
             trim_count == TrimCount(n, tp)
             \* sorted_vals[trim_count:-trim_count], for trim_count > 0
             trimmed == SubSeq(sorted_vals, trim_count + 1, n - trim_count)
         IN  IF trim_count = 0 THEN PlainMean(sorted_vals)
             ELSE IF trimmed # << >> THEN PlainMean(trimmed)
             ELSE PlainMean(sorted_vals)

\* The run times a caller passes (in ms, whole numbers in the model).
TimeValues == {1, 2, 5, 100}
\* The lists of values: every list up to MaxValues, and the two six-element examples.
ValueLists ==
    SeqsUpTo(TimeValues, MaxValues)
        \cup { << 1, 2, 3, 4, 5, 100 >>, << 100, 1, 5, 2, 4, 3 >> }
\* The trim fractions: calibrate_benchmark passes 0.2.
TrimFractions ==
    {Fin(0, 1), Fin(1, 10), Fin(1, 5), Fin(1, 4), Fin(1, 3), Fin(2, 5),
     Fin(49, 100), Fin(1, 2)}

\* One call of trimmed_mean.
TrimmedMeanCall ==
    /\ Start("trimmed_mean", "done")
    /\ \E vals \in ValueLists, tp \in TrimFractions :
          /\ values' = vals
          /\ trim_percent' = tp
          /\ tm_result' = trimmed_mean(vals, tp)
    /\ UNCHANGED << accVars, fitVars, toolVars >>

StatNext ==
    \/ TrimmedMeanCall
    \/ NextRun

\* The robust statistics.
SpecStats == Init /\ [][StatNext]_vars

----------------------------------------------------------------------------
(* benchmarks/native/linear_calibration.py: simple_linear_regression *)

\* Arithmetic.  The regression is written once over an arithmetic ar applied to
\* the result of every float operation: "real" computes with real numbers,
\* "binary" with binary floating point of Precision significant bits,
\* round-half-to-even (the scripts run on binary64, 53 bits).  Operations on
\* Python ints (sum_x, sum_x2 and the denominator) are exact in both.

\* The number of significant bits of the rounded arithmetic.
Precision == 7

\* 2 ** k
RECURSIVE Pow2(_)
Pow2(k) == IF k = 0 THEN 1 ELSE 2 * Pow2(k - 1)

\* The fraction n/d (n, d > 0) scaled by a power of two into
\* 2^(Precision-1) <= n/d < 2^Precision.
RECURSIVE Normalise(_, _)
Normalise(n, d) ==
    IF n \div d >= Pow2(Precision) THEN Normalise(n, 2 * d)
    ELSE IF n \div d < Pow2(Precision - 1) THEN Normalise(2 * n, d)
    ELSE << n, d >>

\* The float nearest to a, ties to the even significand.
Rnd(a) ==
    IF a.k # "fin" \/ a.n = 0 THEN a
    ELSE LET n == IntAbs(a.n)
             sc == Normalise(n, a.d)
             q == sc[1] \div sc[2]
             r == sc[1] % sc[2]
             m == IF 2 * r > sc[2] \/ (2 * r = sc[2] /\ q % 2 = 1) THEN q + 1 ELSE q
             sign == IF a.n < 0 THEN -1 ELSE 1
         IN  IF sc[2] > a.d THEN Fin(sign * m * (sc[2] \div a.d), 1)
             ELSE Fin(sign * m, sc[1] \div n)

\* The result a of a float operation in the arithmetic ar.
R(ar, a) == IF ar = "binary" THEN Rnd(a) ELSE a

\* float(i) for a Python int i.
ToFloat(ar, i) == R(ar, Fin(i, 1))

\* sum(f) over floats, left to right from 0.
RECURSIVE SumTo(_, _, _)
SumTo(ar, f, n) == IF n = 0 THEN Zero ELSE R(ar, FAdd(SumTo(ar, f, n - 1), f[n]))

\* a ** 2
Square(ar, a) == R(ar, FMul(a, a))

\* The returned triple, or the raised error.
FitRaise == [k |-> "raise", slope |-> None, intercept |-> None, r_squared |-> None]
FitTriple(slope, intercept, r_squared) ==
    [k |-> "ok", slope |-> slope, intercept |-> intercept, r_squared |-> r_squared]

\* R-squared, lines 895-898.
RSquared(ar, x, y, slope, intercept) ==
    LET n == Len(x)
        sum_y == SumTo(ar, y, n)
        mean_y == R(ar, PyDiv(sum_y, ToFloat(ar, n)))
        ss_tot == SumTo(ar, [i \in 1..n |->
                     Square(ar, R(ar, FSub(y[i], mean_y)))], n)
        predicted == [i \in 1..n |->
                        R(ar, FAdd(R(ar, FMul(slope, ToFloat(ar, x[i]))), intercept))]
        ss_res == SumTo(ar, [i \in 1..n |->
                     Square(ar, R(ar, FSub(y[i], predicted[i])))], n)
    IN  IF FLt(Zero, ss_tot)
        THEN R(ar, FSub(Fin(1, 1), R(ar, PyDiv(ss_res, ss_tot))))
        ELSE Zero

\* Lines 885-900 for a list x of ints and a list y of floats: the division of
\* line 892 raises ZeroDivisionError when n * sum_x2 - sum_x * sum_x is 0.
Regression(ar, x, y) ==
    LET n == Len(x)
        sum_x == SumInts(x)
        sum_y == SumTo(ar, y, n)
        sum_xy == SumTo(ar, [i \in 1..n |-> R(ar, FMul(ToFloat(ar, x[i]), y[i]))], n)
        sum_x2 == SumInts([i \in 1..n |-> x[i] * x[i]])
        num == R(ar, FSub(R(ar, FMul(ToFloat(ar, n), sum_xy)),
                          R(ar, FMul(ToFloat(ar, sum_x), sum_y))))
        den == n * sum_x2 - sum_x * sum_x
    IN  IF den = 0 THEN FitRaise
        ELSE LET slope == R(ar, PyDiv(num, ToFloat(ar, den)))
                 slope_sum_x == R(ar, FMul(slope, ToFloat(ar, sum_x)))
                 intercept == R(ar, PyDiv(R(ar, FSub(sum_y, slope_sum_x)),
                                          ToFloat(ar, n)))
             IN  FitTriple(slope, intercept, RSquared(ar, x, y, slope, intercept))

\* The times as floats.
Floats(y) == [i \in 1..Len(y) |-> Fin(y[i], 1)]

\* The regression with a zero denominator answered by a zero slope (a faulty variant).
simple_linear_regression_ZeroSlope(x, y) ==
    LET n == Len(x)
        yf == Floats(y)
        sum_x == SumInts(x)
        sum_y == SumTo("real", yf, n)
        sum_xy == SumTo("real", [i \in 1..n |-> Fin(x[i] * y[i], 1)], n)
        sum_x2 == SumInts([i \in 1..n |-> x[i] * x[i]])
        den == n * sum_x2 - sum_x * sum_x
        slope == IF den = 0 THEN Zero
                 ELSE PyDiv(FSub(FMul(Fin(n, 1), sum_xy), FMul(Fin(sum_x, 1), sum_y)),
                            Fin(den, 1))
        intercept == IF n = 0 THEN Zero
                     ELSE PyDiv(FSub(sum_y, FMul(slope, Fin(sum_x, 1))), Fin(n, 1))
    IN  FitTriple(slope, intercept,
                  IF n = 0 THEN Zero ELSE RSquared("real", x, yf, slope, intercept))

\* The regression with the intercept taken as the mean of y (a faulty variant).
simple_linear_regression_MeanIntercept(x, y) ==
    LET n == Len(x)
        yf == Floats(y)
        sum_x == SumInts(x)
        sum_y == SumTo("real", yf, n)
        sum_xy == SumTo("real", [i \in 1..n |-> Fin(x[i] * y[i], 1)], n)
        sum_x2 == SumInts([i \in 1..n |-> x[i] * x[i]])
        den == n * sum_x2 - sum_x * sum_x
    IN  IF den = 0 THEN FitRaise
        ELSE LET slope == PyDiv(FSub(FMul(Fin(n, 1), sum_xy),
                                     FMul(Fin(sum_x, 1), sum_y)), Fin(den, 1))
                 intercept == PyDiv(sum_y, Fin(n, 1))
             IN  FitTriple(slope, intercept, RSquared("real", x, yf, slope, intercept))

\* simple_linear_regression(x, y) in real arithmetic, for whole-numbered times.
simple_linear_regression(x, y) == Regression("real", x, Floats(y))

\* simple_linear_regression(x, y) in rounded arithmetic, for float times.
simple_linear_regression_rounded(x, y) == Regression("binary", x, y)

\* Instruction counts and times of the data points.
FitXs == {1, 2, 4}
FitYs == {0, 1, 3}
\* The data sets: every list of up to MaxPoints points, and the listed example
\* (1000, 10), (2000, 20), (4000, 40).
PointLists ==
    SeqsUpTo(FitXs \X FitYs, MaxPoints)
        \cup { << << 1000, 10 >>, << 2000, 20 >>, << 4000, 40 >> >> }

\* calibrate_benchmark lines 963-980 without scipy: the regression over the
\* collected instruction counts and times; an error raised by it is not caught
\* (nor by main), a returned triple becomes the CalibrationResult.
FitCall ==
    /\ Start("fit", "fitting")
    /\ \E pts \in PointLists :
          /\ data_x' = [i \in 1..Len(pts) |-> pts[i][1]]
          /\ data_y' = [i \in 1..Len(pts) |-> pts[i][2]]
    /\ UNCHANGED << fit_result, accVars, statVars, toolVars >>

FitReturn ==
    /\ pc = "fitting"
    /\ fit_result' = simple_linear_regression(data_x, data_y)
    /\ IF fit_result'.k = "raise" THEN Crash
       ELSE pc' = "done" /\ exit_status' = 0
    /\ UNCHANGED << script, data_x, data_y, statVars, toolVars >>
    /\ UNCHANGED << n_micro, n_poly, all_errors, warned, t_sim, t_real, error,
                    polybench_avg, aggregate, json_status, report_status,
                    accuracy_met >>

FitNext ==
    \/ FitCall
    \/ FitReturn
    \/ NextRun

\* The linear calibration fitter.
SpecFit == Init /\ [][FitNext]_vars

\* Times in ms as floats: 0.1 (rounded to the nearest float), 1.0 and 3.0.
FloatYs == { Rnd(Fin(1, 10)), Fin(1, 1), Fin(3, 1) }
\* The data sets of the rounded fit: every list of up to MaxPoints points.
FloatPointLists == SeqsUpTo(FitXs \X FloatYs, MaxPoints)

\* calibrate_benchmark lines 963-980 without scipy, in rounded arithmetic.
RoundedFitCall ==
    /\ Start("fit_rounded", "fitting")
    /\ \E pts \in FloatPointLists :
          /\ data_x' = [i \in 1..Len(pts) |-> pts[i][1]]
          /\ data_y' = [i \in 1..Len(pts) |-> pts[i][2]]
    /\ UNCHANGED << fit_result, accVars, statVars, toolVars >>

RoundedFitReturn ==
    /\ pc = "fitting"
    /\ fit_result' = simple_linear_regression_rounded(data_x, data_y)
    /\ IF fit_result'.k = "raise" THEN Crash
       ELSE pc' = "done" /\ exit_status' = 0
    /\ UNCHANGED << script, data_x, data_y, statVars, toolVars >>
    /\ UNCHANGED << n_micro, n_poly, all_errors, warned, t_sim, t_real, error,
                    polybench_avg, aggregate, json_status, report_status,
                    accuracy_met >>

RoundedFitNext ==
    \/ RoundedFitCall
    \/ RoundedFitReturn
    \/ NextRun

\* The linear calibration fitter in rounded arithmetic.
SpecFitRounded == Init /\ [][RoundedFitNext]_vars

----------------------------------------------------------------------------
(* benchmarks/native/linear_calibration.py: generate_benchmark and main *)

\* Every variable of the accuracy scripts but the exit status.
accButExit == << n_micro, n_poly, all_errors, warned, t_sim, t_real, error,
                 polybench_avg, aggregate, json_status, report_status,
                 accuracy_met >>

\* A Python int n >= 0 (unbounded) by its digits in base 65536:
\* n = top * 2^32 + high * 2^16 + low, with 0 <= high, low <= 0xFFFF and top
\* everything above bit 31.
Count(top, high, low) == [top |-> top, high |-> high, low |-> low]

\* The integer an iteration count stands for (a negative one has top < 0).
CountValue(c) == (c.top * 65536 + c.high) * 65536 + c.low

\* An instruction line of the generated assembly.
Movz(reg, imm) == [op |-> "movz", reg |-> reg, imm |-> imm, lsl |-> 0]

Movk(reg, imm) == [op |-> "movk", reg |-> reg, imm |-> imm, lsl |-> 16]

Lines(ls) == [k |-> "text", lines |-> ls]

ValueError == [k |-> "raise", error |-> "ValueError: Iteration count too large (max 2^32-1)"]

KeyError == [k |-> "raise", error |-> "KeyError"]

\* load_iterations_asm without the final raise: a count above 2^32-1 is cut
\* to its low 32 bits (a faulty variant).
load_iterations_asm_Truncating(n, reg) ==
    IF n.top < 0 \/ (n.top = 0 /\ n.high = 0)
    THEN Lines(<< Movz(reg, CountValue(n)) >>)
    ELSE LET low  == n.low
             high == n.high
         IN  Lines(<< Movz(reg, low) >>
                   \o (IF high > 0 THEN << Movk(reg, high) >> ELSE << >>))

\* load_iterations_asm(n, reg): n <= 0xFFFF is top < 0, or top = 0 and high = 0
\* (then the number printed is n itself),
\* n <= 0xFFFFFFFF is top = 0, n & 0xFFFF is low, (n >> 16) & 0xFFFF is high.
load_iterations_asm(n, reg) ==
    IF n.top < 0 \/ (n.top = 0 /\ n.high = 0)
    THEN Lines(<< Movz(reg, CountValue(n)) >>)
    ELSE IF n.top = 0
    THEN LET low  == n.low
             high == n.high
         IN  Lines(<< Movz(reg, low) >>
                   \o (IF high > 0 THEN << Movk(reg, high) >> ELSE << >>))
    ELSE ValueError

\* str.format on a template: each placeholder is replaced by its argument,
\* the text between placeholders is kept.
Format(template, iterations, load_iterations, load_iterations_x21) ==
    [i \in 1..Len(template) |->
        IF template[i] = "{iterations}"
        THEN [kind |-> "int", body |-> iterations]
        ELSE IF template[i] = "{load_iterations}"
        THEN [kind |-> "asm", body |-> load_iterations]
        ELSE IF template[i] = "{load_iterations_x21}"
        THEN [kind |-> "asm", body |-> load_iterations_x21]
        ELSE [kind |-> "text", body |-> template[i]]]

\* generate_benchmark(template_name, iterations) reading the registry tmpls:
\* the lookup raises KeyError, the arguments of format are evaluated (and may
\* raise) before format runs.
generate_benchmark(tmpls, template_name, iterations) ==
    IF template_name \notin DOMAIN tmpls
    THEN KeyError
    ELSE LET tmpl == tmpls[template_name]
             a    == load_iterations_asm(iterations, "x11")
             b    == load_iterations_asm(iterations, "x21")
         IN  IF a.k = "raise" THEN a
             ELSE IF b.k = "raise" THEN b
             ELSE [k |-> "text",
                   text |-> Format(tmpl.template, iterations, a.lines, b.lines)]

\* The registry after a call of generate_benchmark that stores the formatted
\* text back into the entry it read (a faulty variant).
RegistryAfterGenerate_Stored(tmpls, template_name, iterations) ==
    LET out == generate_benchmark(tmpls, template_name, iterations)
    IN  IF out.k = "text"
        THEN [tmpls EXCEPT ![template_name] =
                 [template |-> [i \in 1..Len(out.text) |->
                     IF out.text[i].kind = "text" THEN out.text[i].body
                     ELSE "formatted"]]]
        ELSE tmpls

\* The registry after a call of generate_benchmark: the function only reads
\* BENCHMARK_TEMPLATES.
RegistryAfterGenerate(tmpls, template_name, iterations) == tmpls

\* Inputs: the registered names and one that is not registered.
TemplateNames == DOMAIN BENCHMARK_TEMPLATES \cup {"unknown"}

\* Inputs: 0, 0xFFFF, 0x10000 (low half zero), 0xFFFFFFFF, 2^32,
\* 2^32 + 0x10001 and -1.
IterationInputs ==
    { Count(0, 0, 0), Count(0, 0, 65535), Count(0, 1, 0),
      Count(0, 65535, 65535), Count(1, 0, 0), Count(1, 1, 1),
      Count(-1, 65535, 65535) }

\* A caller of the module starts.
GenStart ==
    /\ Start("generate", "gen_call")
    /\ UNCHANGED << accVars, statVars, fitVars, toolVars >>

\* One call generate_benchmark(name, n); an error raised is not caught.
GenerateCall ==
    /\ script = "generate"
    /\ pc = "gen_call"
    /\ \E name \in TemplateNames, n \in IterationInputs :
          LET out == generate_benchmark(templates, name, n)
          IN  /\ gen_name' = name
              /\ gen_n' = n
              /\ gen_out' = out
              /\ templates' = RegistryAfterGenerate(templates, name, n)
              /\ IF out.k = "raise"
                 THEN Crash /\ UNCHANGED gen_log
                 ELSE /\ gen_log' = gen_log \cup
                             {[name |-> name, n |-> n, text |-> out.text]}
                      /\ UNCHANGED << pc, exit_status >>
    /\ UNCHANGED << script, accButExit, statVars, fitVars, requested, cal_idx,
                    point_idx, builds, results_n, buildVars,
                    scanVars, moreVars >>

\* The caller ends.
GenExit ==
    /\ script = "generate"
    /\ pc = "gen_call"
    /\ pc' = "done"
    /\ exit_status' = 0
    /\ UNCHANGED << script, accButExit, statVars, fitVars, toolVars >>

\* iteration_counts of main: 1M, 2M, 4M, 8M, 16M, 32M.
iteration_counts ==
    << Count(0, 15, 16960), Count(0, 30, 33920), Count(0, 61, 2304),
       Count(0, 122, 4608), Count(0, 244, 9216), Count(0, 488, 18432) >>

\* list(BENCHMARK_TEMPLATES.keys()), in the order of the registry.
RegistryKeys == << "arithmetic", "reductiontree" >>

\* main is started with --benchmarks args (none given: every template).
MainStart ==
    /\ Start("linear_calibration", "main_check")
    /\ \E args \in SeqsUpTo(TemplateNames, MaxRequested) :
          requested' = IF args = << >> THEN RegistryKeys ELSE args
    /\ UNCHANGED << accVars, statVars, fitVars, templates, gen_name, gen_n,
                    gen_out, gen_log, cal_idx, point_idx, builds, results_n, buildVars,
                    scanVars, moreVars >>

\* main looking up only the first requested name (a faulty variant).
MainCheck_FirstOnly ==
    /\ script = "linear_calibration"
    /\ pc = "main_check"
    /\ IF requested[1] \notin DOMAIN templates
       THEN /\ pc' = "done"
            /\ exit_status' = 1
            /\ UNCHANGED << cal_idx, point_idx >>
       ELSE /\ pc' = "main_calibrate"
            /\ cal_idx' = 1
            /\ point_idx' = 1
            /\ UNCHANGED exit_status
    /\ UNCHANGED << script, accButExit, statVars, fitVars, templates, gen_name,
                    gen_n, gen_out, gen_log, requested, builds, results_n, buildVars,
                    scanVars, moreVars >>

\* main: every requested name is looked up; the first unknown one ends the
\* process with sys.exit(1).
MainCheck ==
    /\ script = "linear_calibration"
    /\ pc = "main_check"
    /\ IF \E i \in 1..Len(requested) : requested[i] \notin DOMAIN templates
       THEN /\ pc' = "done"
            /\ exit_status' = 1
            /\ UNCHANGED << cal_idx, point_idx >>
       ELSE /\ pc' = "main_calibrate"
            /\ cal_idx' = 1
            /\ point_idx' = 1
            /\ UNCHANGED exit_status
    /\ UNCHANGED << script, accButExit, statVars, fitVars, templates, gen_name,
                    gen_n, gen_out, gen_log, requested, builds, results_n, buildVars,
                    scanVars, moreVars >>

\* calibrate_benchmark: one iteration count: the source is generated, built
\* and run (build_and_run returns or raises).
MainPoint ==
    /\ script = "linear_calibration"
    /\ pc = "main_calibrate"
    /\ cal_idx <= Len(requested)
    /\ point_idx <= Len(iteration_counts)
    /\ LET name == requested[cal_idx]
           n    == iteration_counts[point_idx]
           out  == generate_benchmark(templates, name, n)
       IN  /\ gen_name' = name
           /\ gen_n' = n
           /\ gen_out' = out
           /\ templates' = RegistryAfterGenerate(templates, name, n)
           /\ IF out.k = "raise"
              THEN Crash /\ UNCHANGED << gen_log, builds, point_idx >>
              ELSE /\ gen_log' = gen_log \cup
                          {[name |-> name, n |-> n, text |-> out.text]}
                   /\ builds' = builds + 1
                   /\ \E returned \in BOOLEAN :
                         IF returned
                         THEN /\ point_idx' = point_idx + 1
                              /\ UNCHANGED << pc, exit_status >>
                         ELSE Crash /\ UNCHANGED point_idx
    /\ UNCHANGED << script, accButExit, statVars, fitVars, requested, cal_idx,
                    results_n, buildVars,
                    scanVars, moreVars >>

\* calibrate_benchmark returns its CalibrationResult and main appends it.
MainResult ==
    /\ script = "linear_calibration"
    /\ pc = "main_calibrate"
    /\ cal_idx <= Len(requested)
    /\ point_idx > Len(iteration_counts)
    /\ results_n' = results_n + 1
    /\ cal_idx' = cal_idx + 1
    /\ point_idx' = 1
    /\ UNCHANGED << script, pc, accVars, statVars, fitVars, templates, gen_name,
                    gen_n, gen_out, gen_log, requested, builds, buildVars,
                    scanVars, moreVars >>

\* main prints and saves the results and returns.
MainFinish ==
    /\ script = "linear_calibration"
    /\ pc = "main_calibrate"
    /\ cal_idx > Len(requested)
    /\ pc' = "done"
    /\ exit_status' = 0
    /\ UNCHANGED << script, accButExit, statVars, fitVars, toolVars >>

GenNext ==
    \/ GenStart
    \/ GenerateCall
    \/ GenExit
    \/ MainStart
    \/ MainCheck
    \/ MainPoint
    \/ MainResult
    \/ MainFinish
    \/ NextRun

SpecGen == Init /\ [][GenNext]_vars

----------------------------------------------------------------------------
(* benchmarks/native/linear_calibration.py: build_and_run, and             *)
(* benchmarks/native/measure_memory_benchmarks.py: run_benchmark           *)

\* The status every generated benchmark exits with (mov x0, #0 before svc).
template_exit_status == 0

\* expected_exit_code of every entry of BENCHMARKS.
expected_exit_code == 128

\* Inputs: what a toolchain process (as, xcrun, ld) ends with.
ToolResults ==
    { [returncode |-> 0, stderr |-> ""],
      [returncode |-> 1, stderr |-> "error: unknown directive"],
      [returncode |-> 2, stderr |-> "error: undefined symbol"] }

\* Inputs: the exit status of the executable is the expected one or 1.
ExitStatuses(exp) == {exp, 1}

\* Inputs: how long one invocation of the executable takes (in clock ticks).
Durations == {1, 2}

\* One completed subprocess.run in the order of invocation.
Invocation(tool, phase, result, duration) ==
    [tool |-> tool, phase |-> phase, returncode |-> result.returncode,
     stderr |-> result.stderr, duration |-> duration]

\* time.perf_counter(): the ticks spent in the invocations so far.
RECURSIVE perf_counter(_)
perf_counter(trace) ==
    IF trace = << >> THEN 0
    ELSE trace[Len(trace)].duration + perf_counter(SubSeq(trace, 1, Len(trace) - 1))

\* The sample put in front of the list (a faulty variant).
AppendSample_Front(ts, start, end) == << end - start >> \o ts

\* times.append(end - start)
AppendSample(ts, start, end) == Append(ts, end - start)

\* The error raised without the captured stderr (a faulty variant).
RuntimeError_Bare(text, detail) ==
    [k |-> "raise", error |-> "RuntimeError", message |-> << text, "" >>]

\* RuntimeError(f"{text}{detail}")
RuntimeError(text, detail) ==
    [k |-> "raise", error |-> "RuntimeError", message |-> << text, detail >>]

\* The directory kept when the block is left by an exception (a faulty
\* variant).
TemporaryDirectoryExit_OnReturnOnly(fs, raised) == IF raised THEN fs ELSE {}

\* Leaving "with tempfile.TemporaryDirectory()": the directory and all it
\* holds are removed, whether the block returned or raised.
TemporaryDirectoryExit(fs, raised) == {}

\* build_and_run is called: the directory is made and the source written.
BR_Start ==
    /\ Start("build_and_run", "br_assemble")
    /\ \E r \in 0..MaxRuns, w \in 0..MaxWarmup :
          /\ runs' = r
          /\ warmup' = w
    /\ times' = << >>
    /\ files' = {"benchmark.s"}
    /\ expected' = template_exit_status
    /\ UNCHANGED << accVars, statVars, fitVars, genVars, scanVars, moreVars, invoked, launched,
                    collected >>

\* The assembler runs; a non-zero status raises.
BR_Assemble ==
    /\ script = "build_and_run"
    /\ pc = "br_assemble"
    /\ \E result \in ToolResults :
          /\ invoked' = Append(invoked, Invocation("as", "build", result, 0))
          /\ IF result.returncode # 0
             THEN /\ collected' = RuntimeError("Assembly failed: ", result.stderr)
                  /\ files' = TemporaryDirectoryExit(files, TRUE)
                  /\ Crash
             ELSE /\ files' = files \cup {"benchmark.o"}
                  /\ pc' = "br_sdk"
                  /\ UNCHANGED << collected, exit_status >>
    /\ UNCHANGED << script, accButExit, statVars, fitVars, genVars, scanVars, moreVars, times, runs,
                    warmup, launched, expected >>

\* xcrun is asked for the SDK path; when it fails the default path is used.
BR_SdkPath ==
    /\ script = "build_and_run"
    /\ pc = "br_sdk"
    /\ \E result \in {t \in ToolResults : t.returncode < 2} :
          invoked' = Append(invoked, Invocation("xcrun", "build", result, 0))
    /\ pc' = "br_link"
    /\ UNCHANGED << script, accVars, statVars, fitVars, genVars, scanVars, moreVars, files, times,
                    runs, warmup, launched, expected, collected >>

\* The linker runs; a non-zero status raises.
BR_Link ==
    /\ script = "build_and_run"
    /\ pc = "br_link"
    /\ \E result \in ToolResults :
          /\ invoked' = Append(invoked, Invocation("ld", "build", result, 0))
          /\ IF result.returncode # 0
             THEN /\ collected' = RuntimeError("Link failed: ", result.stderr)
                  /\ files' = TemporaryDirectoryExit(files, TRUE)
                  /\ Crash
             ELSE /\ files' = files \cup {"benchmark"}
                  /\ pc' = "br_run"
                  /\ UNCHANGED << collected, exit_status >>
    /\ launched' = 0
    /\ UNCHANGED << script, accButExit, statVars, fitVars, genVars, scanVars, moreVars, times, runs,
                    warmup, expected >>

\* One pass of "for _ in range(warmup)": the executable runs, nothing is
\* read from the result.
BR_Warmup ==
    /\ script = "build_and_run"
    /\ pc = "br_run"
    /\ launched < warmup
    /\ \E status \in ExitStatuses(expected), d \in Durations :
          invoked' = Append(invoked,
              Invocation("benchmark", "warmup",
                         [returncode |-> status, stderr |-> ""], d))
    /\ launched' = launched + 1
    /\ UNCHANGED << script, pc, accVars, statVars, fitVars, genVars, scanVars, moreVars, files,
                    times, runs, warmup, expected, collected >>

\* One pass of "for _ in range(runs)": the executable runs between two
\* readings of the clock; its status is not read.
BR_Timed ==
    /\ script = "build_and_run"
    /\ pc = "br_run"
    /\ launched >= warmup
    /\ launched < warmup + runs
    /\ \E status \in ExitStatuses(expected), d \in Durations :
          LET start == perf_counter(invoked)
              trace == Append(invoked,
                          Invocation("benchmark", "timed",
                                     [returncode |-> status, stderr |-> ""], d))
              end   == perf_counter(trace)
          IN  /\ invoked' = trace
              /\ times' = AppendSample(times, start, end)
    /\ launched' = launched + 1
    /\ UNCHANGED << script, pc, accVars, statVars, fitVars, genVars, scanVars, moreVars, files,
                    runs, warmup, expected, collected >>

\* Both loops are over: the with block is left and times returned.
BR_Return ==
    /\ script = "build_and_run"
    /\ pc = "br_run"
    /\ launched = warmup + runs
    /\ files' = TemporaryDirectoryExit(files, FALSE)
    /\ collected' = [k |-> "return", times |-> times]
    /\ pc' = "done"
    /\ exit_status' = 0
    /\ UNCHANGED << script, accButExit, statVars, fitVars, genVars, scanVars, moreVars, invoked,
                    times, runs, warmup, launched, expected >>

\* run_benchmark is called for one entry of BENCHMARKS (the executable was
\* built beforehand with make).
RB_Start ==
    /\ Start("run_benchmark", "rb_run")
    /\ \E r \in 0..MaxRuns, w \in 0..MaxWarmup :
          /\ runs' = r
          /\ warmup' = w
    /\ times' = << >>
    /\ expected' = expected_exit_code
    /\ launched' = 0
    /\ UNCHANGED << accVars, statVars, fitVars, genVars, scanVars, moreVars, files, invoked,
                    collected >>

\* One pass of "for _ in range(warmup)": the result is dropped.
RB_Warmup ==
    /\ script = "run_benchmark"
    /\ pc = "rb_run"
    /\ launched < warmup
    /\ \E status \in ExitStatuses(expected), d \in Durations :
          invoked' = Append(invoked,
              Invocation("benchmark", "warmup",
                         [returncode |-> status, stderr |-> ""], d))
    /\ launched' = launched + 1
    /\ UNCHANGED << script, pc, accVars, statVars, fitVars, genVars, scanVars, moreVars, files,
                    times, runs, warmup, expected, collected >>

\* One pass of "for _ in range(runs)": a status other than the expected one
\* raises (main reports it and goes on), else the duration is appended.
RB_Timed ==
    /\ script = "run_benchmark"
    /\ pc = "rb_run"
    /\ launched >= warmup
    /\ launched < warmup + runs
    /\ \E status \in ExitStatuses(expected), d \in Durations :
          LET start == perf_counter(invoked)
              trace == Append(invoked,
                          Invocation("benchmark", "timed",
                                     [returncode |-> status, stderr |-> ""], d))
              end   == perf_counter(trace)
          IN  /\ invoked' = trace
              /\ IF status # expected
                 THEN /\ collected' = RuntimeError("exited with unexpected status", "")
                      /\ pc' = "done"
                      /\ exit_status' = 0
                      /\ UNCHANGED times
                 ELSE /\ times' = AppendSample(times, start, end)
                      /\ UNCHANGED << pc, exit_status, collected >>
    /\ launched' = launched + 1
    /\ UNCHANGED << script, accButExit, statVars, fitVars, genVars, scanVars, moreVars, files, runs,
                    warmup, expected >>

\* Both loops are over: times is returned.
RB_Return ==
    /\ script = "run_benchmark"
    /\ pc = "rb_run"
    /\ launched = warmup + runs
    /\ collected' = [k |-> "return", times |-> times]
    /\ pc' = "done"
    /\ exit_status' = 0
    /\ UNCHANGED << script, accButExit, statVars, fitVars, genVars, scanVars, moreVars, files,
                    invoked, times, runs, warmup, launched, expected >>

CollectNext ==
    \/ BR_Start
    \/ BR_Assemble
    \/ BR_SdkPath
    \/ BR_Link
    \/ BR_Warmup
    \/ BR_Timed
    \/ BR_Return
    \/ RB_Start
    \/ RB_Warmup
    \/ RB_Timed
    \/ RB_Return
    \/ NextRun

SpecCollect == Init /\ [][CollectNext]_vars

----------------------------------------------------------------------------
(* scripts/incremental_testing_validation.py *)

POLYBENCH_SCALING_SIZES == << 64, 96, 128, 192, 256, 384, 512, 768, 1024 >>

\* A ScalingDataPoint, by the two fields the analysis reads directly.
ScalingDataPoint(size, seconds) ==
    [problem_size |-> size, simulation_time_sec |-> Fin(seconds, 1)]

\* p put into the list ps, which ascends by problem_size, after the points
\* of equal size (list.sort is stable).
RECURSIVE InsertBySize(_, _)
InsertBySize(ps, p) ==
    IF ps = << >> THEN << p >>
    ELSE IF p.problem_size < Head(ps).problem_size THEN << p >> \o ps
    ELSE << Head(ps) >> \o InsertBySize(Tail(ps), p)

\* The list left in its order (a faulty variant).
SortByProblemSize_Unsorted(ps) == ps

\* scaling_points.sort(key=lambda x: x.problem_size)
RECURSIVE SortByProblemSize(_)
SortByProblemSize(ps) ==
    IF ps = << >> THEN << >>
    ELSE InsertBySize(SortByProblemSize(SubSeq(ps, 1, Len(ps) - 1)), ps[Len(ps)])

InsufficientPoints ==
    [k |-> "raise", error |-> "ValueError: Need at least 3 data points"]

\* time_ratio / (size_ratio ** 3) for the first and the last point of ps.
ScalingFactor(ps) ==
    LET first      == ps[1]
        last       == ps[Len(ps)]
        size_ratio == PyDiv(Fin(last.problem_size, 1), Fin(first.problem_size, 1))
        time_ratio == PyDiv(last.simulation_time_sec, first.simulation_time_sec)
    IN  PyDiv(time_ratio, FMul(size_ratio, FMul(size_ratio, size_ratio)))

\* The analysis accepting two points (a faulty variant).
analyze_scaling_correlation_TwoPoints(points, r_squared) ==
    IF Len(points) < 2
    THEN InsufficientPoints
    ELSE LET sorted == SortByProblemSize(points)
         IN  [k |-> "return",
              scaling_points |-> sorted,
              correlation_coefficient |-> r_squared,
              scaling_factor |-> ScalingFactor(sorted)]

\* analyze_scaling_correlation(benchmark, scaling_points); r_squared is what
\* scipy's linregress gives for the points (not part of this repository).
analyze_scaling_correlation(points, r_squared) ==
    IF Len(points) < 3
    THEN InsufficientPoints
    ELSE LET sorted == SortByProblemSize(points)
         IN  [k |-> "return",
              scaling_points |-> sorted,
              correlation_coefficient |-> r_squared,
              scaling_factor |-> ScalingFactor(sorted)]

\* The caller's list after the call: the sort of line 183 is in place.
ListAfterAnalyze(points) ==
    IF Len(points) < 3 THEN points ELSE SortByProblemSize(points)

\* Inputs: r_value ** 2 of the regression: below 0.95 and 0.95 itself.
RSquaredOutcomes == { Fin(1, 2), Fin(19, 20) }

correlation_target == Fin(19, 20)

\* Inputs: the points a caller may hold, two of them of the same size.
PointPool ==
    { ScalingDataPoint(64, 1), ScalingDataPoint(96, 2), ScalingDataPoint(96, 3),
      ScalingDataPoint(128, 5) }

\* Inputs: lists of up to MaxScalingPoints different points in any order.
ScalingPointLists ==
    { ps \in SeqsUpTo(PointPool, MaxScalingPoints) :
         \A i, j \in 1..Len(ps) : i # j => ps[i] # ps[j] }

\* Inputs: how long the simulation of one size takes (seconds): it grows
\* with the size, and the smallest size has a slow and a fast run.
SimulationTimes(size) == IF size = 64 THEN {2, 4} ELSE {size \div 32}

\* A caller holds a list of points.
AN_Start ==
    /\ Start("analyze_scaling_correlation", "an_call")
    /\ scaling_points' \in ScalingPointLists
    /\ UNCHANGED << accVars, statVars, fitVars, genVars, buildVars, moreVars, passed,
                    analysis, size_idx, measured >>

\* The caller calls analyze_scaling_correlation on its list; an error is
\* not caught.
AN_Call ==
    /\ script = "analyze_scaling_correlation"
    /\ pc = "an_call"
    /\ \E r2 \in RSquaredOutcomes :
          LET result == analyze_scaling_correlation(scaling_points, r2)
          IN  /\ analysis' = result
              /\ IF result.k = "raise"
                 THEN Crash
                 ELSE UNCHANGED << pc, exit_status >>
    /\ passed' = scaling_points
    /\ scaling_points' = ListAfterAnalyze(scaling_points)
    /\ UNCHANGED << script, accButExit, statVars, fitVars, genVars, buildVars, moreVars,
                    size_idx, measured >>

\* The caller ends.
AN_Exit ==
    /\ script = "analyze_scaling_correlation"
    /\ pc = "an_call"
    /\ pc' = "done"
    /\ exit_status' = 0
    /\ UNCHANGED << script, accButExit, statVars, fitVars, toolVars >>

\* main calls run_incremental_validation.
SC_Start ==
    /\ Start("incremental_testing_validation", "sc_measure")
    /\ scaling_points' = << >>
    /\ size_idx' = 1
    /\ UNCHANGED << accVars, statVars, fitVars, genVars, buildVars, moreVars, passed,
                    analysis, measured >>

\* Inputs: how one measurement goes, by the first thing that goes wrong.
MeasureOutcomes ==
    { "point", "no_directory", "build_failed", "build_timeout",
      "build_not_started", "simulator_failed", "simulator_timeout",
      "simulator_not_started", "unparsable" }

\* build_polybench_with_size: the path of the binary, None, or an error:
\* only subprocess.TimeoutExpired is caught around the two make calls.
build_polybench_with_size(outcome) ==
    IF outcome = "no_directory" THEN [k |-> "none"]
    ELSE IF outcome = "build_not_started" THEN [k |-> "raise", error |-> "OSError"]
    ELSE IF outcome = "build_timeout" THEN [k |-> "none"]
    ELSE IF outcome = "build_failed" THEN [k |-> "none"]
    ELSE [k |-> "binary"]

\* measure_performance_with_size: a point, None, or an error: the build is
\* called before the try block, whose handlers turn every error of the
\* simulation and of the parsing into None.
measure_performance_with_size(outcome, size, seconds) ==
    LET binary_path == build_polybench_with_size(outcome)
    IN  IF binary_path.k = "raise" THEN binary_path
        ELSE IF binary_path.k = "none" THEN [k |-> "none"]
        ELSE IF outcome \in {"simulator_not_started", "simulator_timeout"}
        THEN [k |-> "none"]
        ELSE IF outcome = "simulator_failed" THEN [k |-> "none"]
        ELSE IF outcome = "unparsable" THEN [k |-> "none"]
        ELSE [k |-> "point", point |-> ScalingDataPoint(size, seconds)]

\* One pass of the loop over the sizes: the size is measured (a point, None
\* or an error, which leaves run_incremental_validation and is caught by
\* main), a point is appended, and with three points or more the list is
\* analysed; a good correlation on five points or more ends the loop.
SC_Measure ==
    /\ script = "incremental_testing_validation"
    /\ pc = "sc_measure"
    /\ size_idx <= Len(POLYBENCH_SCALING_SIZES)
    /\ \E outcome \in MeasureOutcomes, r2 \in RSquaredOutcomes :
       \E seconds \in (IF outcome = "point"
                        THEN SimulationTimes(POLYBENCH_SCALING_SIZES[size_idx])
                        ELSE {1}) :
          LET size   == POLYBENCH_SCALING_SIZES[size_idx]
              point  == measure_performance_with_size(outcome, size, seconds)
              points == IF point.k = "point"
                        THEN Append(scaling_points, point.point)
                        ELSE scaling_points
              temp_analysis == analyze_scaling_correlation(points, r2)
          IN  /\ measured' = [idx |-> size_idx, outcome |-> outcome]
              /\ IF point.k = "raise"
                 THEN /\ analysis' = point
                      /\ pc' = "done"
                      /\ exit_status' = 1
                      /\ UNCHANGED << scaling_points, passed, size_idx >>
                 ELSE /\ size_idx' = size_idx + 1
                      /\ UNCHANGED exit_status
                      /\ IF Len(points) >= 3
                         THEN /\ passed' = points
                              /\ analysis' = temp_analysis
                              /\ scaling_points' = ListAfterAnalyze(points)
                              /\ pc' = IF \/ /\ FLe(correlation_target,
                                                    temp_analysis.correlation_coefficient)
                                             /\ Len(points) >= 5
                                          \/ size_idx = Len(POLYBENCH_SCALING_SIZES)
                                       THEN "sc_final" ELSE "sc_measure"
                         ELSE /\ scaling_points' = points
                              /\ pc' = IF size_idx = Len(POLYBENCH_SCALING_SIZES)
                                       THEN "sc_final" ELSE "sc_measure"
                              /\ UNCHANGED << passed, analysis >>
    /\ UNCHANGED << script, accButExit, statVars, fitVars, genVars, buildVars, moreVars >>

\* After the loop: fewer than three points raise, else the list is analysed
\* and main returns 0 for a correlation of 0.95 or more and 1 otherwise
\* (also for the error, which main catches).
SC_Final ==
    /\ script = "incremental_testing_validation"
    /\ pc = "sc_final"
    /\ IF Len(scaling_points) < 3
       THEN /\ analysis' =
                  [k |-> "raise", error |-> "ValueError: Insufficient data points"]
            /\ exit_status' = 1
            /\ UNCHANGED << scaling_points, passed >>
       ELSE \E r2 \in RSquaredOutcomes :
               /\ passed' = scaling_points
               /\ analysis' = analyze_scaling_correlation(scaling_points, r2)
               /\ scaling_points' = ListAfterAnalyze(scaling_points)
               /\ exit_status' = IF FLe(correlation_target, r2) THEN 0 ELSE 1
    /\ pc' = "done"
    /\ UNCHANGED << script, accButExit, statVars, fitVars, genVars, buildVars, moreVars,
                    size_idx, measured >>

ScanNext ==
    \/ AN_Start
    \/ AN_Call
    \/ AN_Exit
    \/ SC_Start
    \/ SC_Measure
    \/ SC_Final
    \/ NextRun

SpecScan == Init /\ [][ScanNext]_vars

----------------------------------------------------------------------------
(* scripts/diana_comprehensive_qa_validation.py *)

r_squared_threshold == Fin(19, 20)

velocity_threshold == Fin(3, 1)

\* performance_thresholds['pipeline_tick_8wide'], in ns/op.
pipeline_tick_8wide == 5000

\* The benchmarks of the full suite.
SuiteBenchmarks == << "gemm", "atax", "gesummv" >>

\* Inputs: how "go test -bench" ends.
GoTestOutcomes == {"exit_0", "exit_nonzero", "timeout", "not_started"}

\* Inputs: ns/op parsed from its output (0: no line could be parsed).
NsPerOp == {0, 4999, 5000}

\* run_performance_regression_check: the performance_status it returns.
run_performance_regression_check(outcome, ns_per_op) ==
    IF outcome = "exit_0"
    THEN (IF ns_per_op < pipeline_tick_8wide THEN "PASS" ELSE "REGRESSION")
    ELSE IF outcome = "timeout" THEN "TIMEOUT"
    ELSE "ERROR"

\* performance_pass: the status of the regression check is PASS or TIMEOUT.
RegressionPass(performance_status) == performance_status \in {"PASS", "TIMEOUT"}

\* _determine_validation_status
determine_validation_status(r2, p_value, max_accuracy_error, velocity_improvement, performance_status) ==
    LET correlation_pass  == FLe(r_squared_threshold, r2)
        accuracy_pass     == FLe(max_accuracy_error, Fin(20, 1))
        velocity_pass     == FLe(velocity_threshold, velocity_improvement)
        performance_pass  == RegressionPass(performance_status)
        significance_pass == FLt(p_value, Fin(1, 20))
        critical_failures == ~correlation_pass \/ ~accuracy_pass \/ ~significance_pass
        warnings          == ~velocity_pass \/ ~performance_pass
    IN  IF critical_failures THEN "FAILED"
        ELSE IF warnings THEN "WARNING"
        ELSE "PASSED"

\* The five items of the Quality Assurance Checklist of the report.
QualityAssuranceChecklist(result) ==
    [k |-> "checklist",
     correlation  |-> FLe(r_squared_threshold, result.scaling_analysis.correlation_coefficient),
     accuracy     |-> FLe(result.max_accuracy_error, Fin(20, 1)),
     significance |-> FLt(result.scaling_analysis.p_value, Fin(1, 20)),
     velocity     |-> FLe(velocity_threshold, result.velocity_improvement),
     performance  |-> result.performance_status = "PASS"]

\* The QAValidationResult returned when fewer than 3 points were measured.
FailedResult(benchmark) ==
    [benchmark |-> benchmark, scaling_analysis |-> [k |-> "none"],
     validation_status |-> "FAILED"]

\* What main keeps of a result in all_results.
Summary(result) ==
    [benchmark |-> result.benchmark,
     has_analysis |-> result.scaling_analysis.k # "none",
     validation_status |-> result.validation_status]

\* Inputs: the p-value of the regression: below 0.05 and 0.05 itself.
PValues == { Fin(1, 100), Fin(1, 20) }

\* Inputs: the greatest cross-scale accuracy error in percent: 20 and above.
MaxAccuracyErrors == { Fin(20, 1), Fin(21, 1) }

\* Inputs: the velocity improvement: below 3 and 3 itself.
VelocityImprovements == { Fin(2, 1), Fin(3, 1) }

\* benchmarks of main in the mode chosen.
QABenchmarks(mode) == IF mode = "full_suite" THEN SuiteBenchmarks ELSE << "gemm" >>

Accepted(status) == status \in {"PASSED", "WARNING"}

\* main is started with --full-suite, with --benchmark, or with neither
\* (an error, status 1).
QA_Start ==
    /\ pc = "idle"
    /\ script' = "diana_comprehensive_qa_validation"
    /\ \E mode \in {"full_suite", "benchmark", "neither"} :
          /\ qa_mode' = mode
          /\ IF mode = "neither"
             THEN /\ pc' = "done"
                  /\ exit_status' = 1
                  /\ UNCHANGED << qa_idx, qa_size_idx >>
             ELSE /\ pc' = "qa_measure"
                  /\ qa_idx' = 1
                  /\ qa_size_idx' = 1
                  /\ UNCHANGED exit_status
    /\ UNCHANGED << accButExit, statVars, fitVars, genVars, buildVars, scanVars, restVars, restVars,
                    qa_points, qa_result, all_results, reports, checklist,
                    summary_written >>

\* run_comprehensive_validation, one pass of the loop over the sizes:
\* build_and_measure_with_size gives a point or None (every error is caught
\* in it); with five points or more a good correlation ends the loop.
QA_Measure ==
    /\ script = "diana_comprehensive_qa_validation"
    /\ pc = "qa_measure"
    /\ qa_size_idx <= Len(POLYBENCH_SCALING_SIZES)
    /\ \E point \in BOOLEAN, r2 \in RSquaredOutcomes :
          LET n == IF point THEN qa_points + 1 ELSE qa_points
          IN  /\ qa_points' = n
              /\ pc' = IF \/ n >= 5 /\ FLe(r_squared_threshold, r2)
                          \/ qa_size_idx = Len(POLYBENCH_SCALING_SIZES)
                       THEN "qa_validate" ELSE "qa_measure"
    /\ qa_size_idx' = qa_size_idx + 1
    /\ UNCHANGED << script, accVars, statVars, fitVars, genVars, buildVars,
                    scanVars, restVars, qa_mode, qa_idx, qa_result, all_results, reports,
                    checklist, summary_written >>

\* run_comprehensive_validation after the loop: fewer than 3 points give
\* the FAILED result without an analysis; else the analysis, the accuracy,
\* the velocity and the regression check decide the status.  main appends
\* the result to all_results.
QA_Validate ==
    /\ script = "diana_comprehensive_qa_validation"
    /\ pc = "qa_validate"
    /\ LET benchmark == QABenchmarks(qa_mode)[qa_idx]
       IN  \E result \in
                IF qa_points < 3
                THEN { FailedResult(benchmark) }
                ELSE { [benchmark |-> benchmark,
                        scaling_analysis |->
                            [k |-> "analysis", correlation_coefficient |-> r2,
                             p_value |-> p],
                        max_accuracy_error |-> e,
                        velocity_improvement |-> v,
                        performance_status |-> run_performance_regression_check(g, ns),
                        validation_status |->
                            determine_validation_status(r2, p, e, v,
                                run_performance_regression_check(g, ns))] :
                       r2 \in RSquaredOutcomes, p \in PValues, e \in MaxAccuracyErrors,
                       v \in VelocityImprovements, g \in GoTestOutcomes,
                       ns \in NsPerOp } :
              /\ qa_result' = result
              /\ all_results' = Append(all_results, Summary(result))
    /\ pc' = "qa_report"
    /\ UNCHANGED << script, accVars, statVars, fitVars, genVars, buildVars,
                    scanVars, restVars, qa_mode, qa_idx, qa_size_idx, qa_points, reports,
                    checklist, summary_written >>

\* generate_comprehensive_report for the result just made: it reads
\* result.scaling_analysis.correlation_coefficient, which raises for a
\* result without an analysis; main catches the error and returns 1.  After
\* the report of the last benchmark the suite goes on to its summary, and a
\* single benchmark run returns.
QA_Report ==
    /\ script = "diana_comprehensive_qa_validation"
    /\ pc = "qa_report"
    /\ IF qa_result.scaling_analysis.k = "none"
       THEN /\ pc' = "done"
            /\ exit_status' = 1
            /\ UNCHANGED << reports, checklist, qa_idx, qa_size_idx, qa_points >>
       ELSE /\ reports' = reports \cup {qa_result.benchmark}
            /\ checklist' = QualityAssuranceChecklist(qa_result)
            /\ IF qa_idx < Len(QABenchmarks(qa_mode))
               THEN /\ pc' = "qa_measure"
                    /\ qa_idx' = qa_idx + 1
                    /\ qa_size_idx' = 1
                    /\ qa_points' = 0
                    /\ UNCHANGED exit_status
               ELSE /\ IF qa_mode = "full_suite"
                       THEN pc' = "qa_summary" /\ UNCHANGED exit_status
                       ELSE /\ pc' = "done"
                            /\ exit_status' =
                                 IF Accepted(qa_result.validation_status) THEN 0 ELSE 1
                    /\ UNCHANGED << qa_idx, qa_size_idx, qa_points >>
    /\ UNCHANGED << script, accButExit, statVars, fitVars, genVars, buildVars,
                    scanVars, restVars, qa_mode, qa_result, all_results, summary_written >>

\* generate_suite_summary and the return of main.
QA_Summary ==
    /\ script = "diana_comprehensive_qa_validation"
    /\ pc = "qa_summary"
    /\ IF \E i \in 1..Len(all_results) : ~all_results[i].has_analysis
       THEN /\ exit_status' = 1
            /\ UNCHANGED summary_written
       ELSE /\ summary_written' = TRUE
            /\ exit_status' =
                 IF \A i \in 1..Len(all_results) :
                       Accepted(all_results[i].validation_status)
                 THEN 0 ELSE 1
    /\ pc' = "done"
    /\ UNCHANGED << script, accButExit, statVars, fitVars, genVars, buildVars,
                    scanVars, restVars, qa_mode, qa_idx, qa_size_idx, qa_points, qa_result,
                    all_results, reports, checklist >>

QANext ==
    \/ QA_Start
    \/ QA_Measure
    \/ QA_Validate
    \/ QA_Report
    \/ QA_Summary
    \/ NextRun

SpecQA == Init /\ [][QANext]_vars

----------------------------------------------------------------------------
(* linear_calibration.py: calibrate_benchmark called with any list of
   iteration counts (SpecCal).  HAS_SCIPY is false: the fit is
   simple_linear_regression. *)

\* Most iteration counts in the list passed to calibrate_benchmark.
MaxCounts == 3

\* tmpl["instructions_per_iter"] of the two templates of the model.
instructions_per_iter(template_name) ==
    IF template_name = "arithmetic" THEN 20 ELSE 31

\* The lists of iteration counts a caller passes: in any order, with repeats.
IterationLists ==
    SeqsUpTo({Count(0, 0, 1), Count(0, 0, 2), Count(0, 0, 3)}, MaxCounts)

\* What build_and_run does at one count: it returns the times or raises the
\* RuntimeError of the assembler or of the linker.
BuildAndRunOutcomes == {"times", "Assembly failed: ", "Link failed: "}

\* trimmed_mean(run_times_ms, 0.2) of one count, in milliseconds.
AvgTimesMs == {1, 2}

CalibrationResult(benchmark, slope, intercept, r_squared, points) ==
    [k |-> "CalibrationResult", benchmark |-> benchmark,
     instruction_latency_ns |-> FMul(slope, Fin(1000000, 1)),
     overhead_ms |-> intercept, r_squared |-> r_squared,
     data_points |-> points]

CB_Start ==
    /\ Start("calibrate_benchmark", "cb_loop")
    /\ \E name \in DOMAIN BENCHMARK_TEMPLATES, counts \in IterationLists :
          /\ cal_name' = name
          /\ cal_counts' = counts
    /\ cal_pos' = 1
    /\ data_points' = << >>
    /\ cal_failed' = 0
    /\ cal_result' = NoResult
    /\ UNCHANGED << accVars, statVars, fitVars, genVars, buildVars, scanVars,
                    qaVars, h4Vars >>

\* One pass of the loop over iteration_counts: the source is generated, built
\* and run, and the point is appended; an exception of generate_benchmark or of
\* build_and_run leaves calibrate_benchmark.
CB_Point ==
    /\ script = "calibrate_benchmark"
    /\ pc = "cb_loop"
    /\ cal_pos <= Len(cal_counts)
    /\ LET iterations == cal_counts[cal_pos]
           total_instructions ==
               CountValue(iterations) * instructions_per_iter(cal_name)
           asm_source == generate_benchmark(BENCHMARK_TEMPLATES, cal_name, iterations)
       IN  IF asm_source.k = "raise"
           THEN /\ cal_result' = asm_source
                /\ pc' = "done"
                /\ UNCHANGED << cal_pos, data_points, cal_failed >>
           ELSE \E outcome \in BuildAndRunOutcomes :
                   IF outcome = "times"
                   THEN /\ \E avg_time_ms \in AvgTimesMs :
                              data_points' = Append(data_points,
                                  << total_instructions, avg_time_ms >>)
                        /\ cal_pos' = cal_pos + 1
                        /\ UNCHANGED << pc, cal_failed, cal_result >>
                   ELSE /\ cal_result' = RuntimeError(outcome, "stderr")
                        /\ cal_failed' = cal_failed + 1
                        /\ pc' = "done"
                        /\ UNCHANGED << cal_pos, data_points >>
    /\ UNCHANGED << script, accVars, statVars, fitVars, genVars, buildVars,
                    scanVars, qaVars, h4Vars, cal_name, cal_counts >>

\* After the loop: the regression over the points and the CalibrationResult.
CB_Return ==
    /\ script = "calibrate_benchmark"
    /\ pc = "cb_loop"
    /\ cal_pos > Len(cal_counts)
    /\ LET instruction_counts == [i \in 1..Len(data_points) |-> data_points[i][1]]
           times_ms == [i \in 1..Len(data_points) |-> data_points[i][2]]
           reg == simple_linear_regression(instruction_counts, times_ms)
       IN  cal_result' = IF reg.k = "raise"
                         THEN [k |-> "raise", error |-> "ZeroDivisionError",
                               message |-> << "float division by zero", "" >>]
                         ELSE CalibrationResult(cal_name, reg.slope, reg.intercept,
                                                reg.r_squared, data_points)
    /\ pc' = "done"
    /\ UNCHANGED << script, accVars, statVars, fitVars, genVars, buildVars,
                    scanVars, qaVars, h4Vars, cal_name, cal_counts, cal_pos,
                    data_points, cal_failed >>

CalNext ==
    \/ CB_Start
    \/ CB_Point
    \/ CB_Return
    \/ NextRun

SpecCal == Init /\ [][CalNext]_vars

----------------------------------------------------------------------------
(* linear_calibration.py: build_and_run when a child process never exits
   (SpecTerminate). *)

\* The timeout argument of the subprocess.run call made at a position of
\* build_and_run: none of the calls passes one.
SubprocessTimeout(position) ==
    CASE position = "br_assemble" -> "None"
      [] position = "br_sdk"      -> "None"
      [] position = "br_link"     -> "None"
      [] position = "br_run"      -> "None"

\* The child started by the next subprocess.run call never exits.  Without a
\* timeout subprocess.run waits for it for ever; with one, TimeoutExpired is
\* raised and leaves build_and_run.
BR_ChildNeverExits ==
    /\ script = "build_and_run"
    /\ pc \in {"br_assemble", "br_sdk", "br_link", "br_run"}
    /\ pc = "br_run" => launched < warmup + runs
    /\ IF SubprocessTimeout(pc) = "None"
       THEN /\ pc' = "waiting"
            /\ UNCHANGED << files, collected, exit_status >>
       ELSE /\ collected' = [k |-> "raise", error |-> "TimeoutExpired",
                             message |-> << "timed out", "" >>]
            /\ files' = TemporaryDirectoryExit(files, TRUE)
            /\ Crash
    /\ UNCHANGED << script, accButExit, statVars, fitVars, genVars, scanVars,
                    moreVars, invoked, times, runs, warmup, launched, expected >>

TerminateNext ==
    \/ BR_Start
    \/ BR_Assemble
    \/ BR_SdkPath
    \/ BR_Link
    \/ BR_Warmup
    \/ BR_Timed
    \/ BR_Return
    \/ BR_ChildNeverExits
    \/ NextRun

\* The interpreter keeps executing the script while a step is possible.
SpecTerminate == Init /\ [][TerminateNext]_vars /\ WF_vars(TerminateNext)

----------------------------------------------------------------------------
(* h4_multicore_analysis.py: run_multicore_simulation and
   build_statistical_model (SpecH4). *)

\* Most simulation runs asked of run_multicore_simulation.
MaxSimRuns == 2
\* Most lines in the output of one simulation run.
MaxLines == 2
\* Most results of one core count held in self.results.
MaxSamples == 6

\* The lines the simulator prints: a "Total CPI:" line with a number, one
\* with text that is no number, and a line of another kind.
OutputLines ==
    { [label |-> "Total CPI:", text |-> "1"],
      [label |-> "Total CPI:", text |-> "2"],
      [label |-> "Total CPI:", text |-> "abc"],
      [label |-> "Simulation finished", text |-> ""] }

Stdouts == SeqsUpTo(OutputLines, MaxLines)

\* float(text): the number, or ValueError.
ParseFloat(text) ==
    CASE text = "1" -> [k |-> "float", value |-> 1]
      [] text = "2" -> [k |-> "float", value |-> 2]
      [] OTHER      -> [k |-> "raise", error |-> "ValueError"]

\* The loop over the lines: metrics['cpi'] after the first i lines (a line
\* whose number does not parse is passed over).
RECURSIVE CpiAfter(_, _)
CpiAfter(lines, i) ==
    IF i = 0 THEN [k |-> "None"]
    ELSE LET before == CpiAfter(lines, i - 1)
             line   == lines[i]
         IN  IF line.label = "Total CPI:" /\ ParseFloat(line.text).k = "float"
             THEN [k |-> "float", value |-> ParseFloat(line.text).value]
             ELSE before

\* _parse_multicore_output: the metrics, or None without a parsed CPI.
parse_multicore_output(stdout) ==
    LET cpi == CpiAfter(stdout, Len(stdout))
    IN  IF cpi.k = "None" THEN [k |-> "None"]
        ELSE [k |-> "metrics", cpi |-> cpi.value]

\* _average_simulation_results: np.mean of the CPIs.
average_simulation_results(results) ==
    [k |-> "dict", cpi |-> Fin(SumInts(results), Len(results))]

\* parsed_result.get('cpi', 'N/A') in the print after each run: an
\* AttributeError when parsed_result is None.
PrintCpi(parsed_result) ==
    IF parsed_result.k = "None"
    THEN [k |-> "raise", error |-> "AttributeError",
          message |-> << "'NoneType' object has no attribute 'get'", "" >>]
    ELSE [k |-> "printed"]

MC_Start ==
    /\ Start("run_multicore_simulation", "mc_loop")
    /\ \E r \in 0..MaxSimRuns : mc_runs' = r
    /\ mc_run' = 0
    /\ simulation_results' = << >>
    /\ mc_unparsed' = 0
    /\ mc_result' = NoResult
    /\ UNCHANGED << accVars, statVars, fitVars, genVars, buildVars, scanVars,
                    qaVars, calVars, h4_results, model_core, stat_model,
                    statistical_models >>

\* One pass of "for run in range(runs)": the simulator runs, a non-zero
\* status returns None, the output is parsed, a parsed result is appended,
\* and the time and the CPI are printed.
MC_Run ==
    /\ script = "run_multicore_simulation"
    /\ pc = "mc_loop"
    /\ mc_run < mc_runs
    /\ \E returncode \in {0, 1}, stdout \in Stdouts :
          LET parsed_result == parse_multicore_output(stdout)
              printed == PrintCpi(parsed_result)
          IN  IF returncode # 0
              THEN /\ mc_result' = [k |-> "None"]
                   /\ pc' = "done"
                   /\ UNCHANGED << mc_run, simulation_results, mc_unparsed >>
              ELSE /\ simulation_results' =
                         IF parsed_result.k = "None" THEN simulation_results
                         ELSE Append(simulation_results, parsed_result.cpi)
                   /\ mc_unparsed' = IF parsed_result.k = "None"
                                     THEN mc_unparsed + 1 ELSE mc_unparsed
                   /\ IF printed.k = "raise"
                      THEN /\ mc_result' = printed
                           /\ pc' = "done"
                           /\ UNCHANGED mc_run
                      ELSE /\ mc_run' = mc_run + 1
                           /\ UNCHANGED << pc, mc_result >>
    /\ UNCHANGED << script, accVars, statVars, fitVars, genVars, buildVars,
                    scanVars, qaVars, calVars, mc_runs, h4_results, model_core,
                    stat_model, statistical_models >>

\* After the loop: None without results, else their average.
MC_Return ==
    /\ script = "run_multicore_simulation"
    /\ pc = "mc_loop"
    /\ mc_run = mc_runs
    /\ mc_result' = IF simulation_results = << >> THEN [k |-> "None"]
                    ELSE average_simulation_results(simulation_results)
    /\ pc' = "done"
    /\ UNCHANGED << script, accVars, statVars, fitVars, genVars, buildVars,
                    scanVars, qaVars, calVars, mc_runs, mc_run,
                    simulation_results, mc_unparsed, h4_results, model_core,
                    stat_model, statistical_models >>

\* The coefficients np.linalg.lstsq fits: the intercept and four features.
feature_names ==
    << "intercept", "coherence_overhead", "memory_contention", "l2_miss_rate",
       "sim_cpi" >>

\* np.sqrt(ss_res / (len(y) - len(coeffs))): numpy's float division by zero
\* gives inf or nan (with a warning), no exception.
residual_std_error(samples, ss_res) ==
    IF samples - Len(feature_names) = 0
    THEN IF ss_res = 0 THEN NaN ELSE Inf
    ELSE Fin(ss_res, samples - Len(feature_names))

\* The least number of results build_statistical_model asks for.
minimum_sample_size == 5

\* build_statistical_model is called for a core count on an analyzer that
\* holds some results.
BM_Start ==
    /\ Start("build_statistical_model", "bm_build")
    /\ \E held \in [{2, 4} -> 0..MaxSamples], core_count \in {2, 4} :
          /\ h4_results' = held
          /\ model_core' = core_count
    /\ stat_model' = NoResult
    /\ statistical_models' = {}
    /\ UNCHANGED << accVars, statVars, fitVars, genVars, buildVars, scanVars,
                    qaVars, calVars, mc_runs, mc_run, simulation_results,
                    mc_unparsed, mc_result >>

\* The body: too few results return None; else the regression is fitted
\* (np.linalg.LinAlgError returns None) and the model stored and returned.
BM_Build ==
    /\ script = "build_statistical_model"
    /\ pc = "bm_build"
    /\ LET samples == h4_results[model_core]
       IN  IF samples < minimum_sample_size
           THEN /\ stat_model' = [k |-> "None"]
                /\ UNCHANGED statistical_models
           ELSE \E converged \in BOOLEAN, ss_res \in {0, 1} :
                   IF converged
                   THEN /\ stat_model' =
                              [k |-> "StatisticalModel",
                               sample_size |-> samples,
                               coefficients |-> Len(feature_names),
                               residual_std_error |->
                                   residual_std_error(samples, ss_res)]
                        /\ statistical_models' = statistical_models \cup {model_core}
                   ELSE /\ stat_model' = [k |-> "None"]
                        /\ UNCHANGED statistical_models
    /\ pc' = "done"
    /\ UNCHANGED << script, accVars, statVars, fitVars, genVars, buildVars,
                    scanVars, qaVars, calVars, mc_runs, mc_run,
                    simulation_results, mc_unparsed, mc_result, h4_results,
                    model_core >>

H4Next ==
    \/ MC_Start
    \/ MC_Run
    \/ MC_Return
    \/ BM_Start
    \/ BM_Build
    \/ NextRun

SpecH4 == Init /\ [][H4Next]_vars

----------------------------------------------------------------------------
(* The claims about the accuracy scripts (checked under Spec). *)

\* a < 1/5 for a float a.
BelowFifth(a) == a.k = "fin" /\ 5 * a.n < a.d

\* C1: the H5 gate is a strict conjunction: a run of the H5 calculator or of the
\* H5 report ends complete (exit status 0) exactly when the aggregate error is
\* strictly below 0.20 and the benchmark count is at least 15; an aggregate of
\* exactly 0.20, or a count of 14, fails.
C1_GateStrictConjunction ==
    (pc = "done" /\ script \in {"h5_report", "h5_calc"}) =>
        LET count == IF script = "h5_report" THEN n_micro + n_poly ELSE 11 + n_poly
            pass == BelowFifth(aggregate) /\ count >= 15
        IN  /\ (exit_status = 0) <=> pass
            /\ (exit_status = 1) <=> ~pass
            /\ script = "h5_calc" =>
                  /\ (json_status = "complete") <=> pass
                  /\ (report_status = "COMPLETE") <=> pass

\* C1 witness: an H5 report run with at least 15 comparisons whose average error
\* is exactly 0.20 fails.
C1_Witness ==
    /\ pc = "done"
    /\ script = "h5_report"
    /\ n_micro + n_poly >= 15
    /\ aggregate = Fin(1, 5)
    /\ exit_status = 1

\* C2: for positive latencies the error is |sim - hw| / min(sim, hw), and the
\* same value results with the two arguments swapped.
C2_ErrorFormulaSymmetric ==
    (/\ pc = "done"
     /\ script \in {"compare_report", "compare_inline"}
     /\ FLt(Zero, t_sim)
     /\ FLt(Zero, t_real)) =>
        LET simBelow == t_sim.n * t_real.d <= t_real.n * t_sim.d
            lo == IF simBelow THEN t_sim ELSE t_real
            hi == IF simBelow THEN t_real ELSE t_sim
            swapped == IF script = "compare_report"
                       THEN calculate_error(t_real, t_sim)
                       ELSE InlineError(t_real, t_sim)
        IN  /\ error.k = "fin"
            /\ FMul(error, lo) = FSub(hi, lo)
            /\ error = swapped

\* C2 witness: compare(sim = 2.5, hw = 2.0) has been computed and is 0.25.
C2_Witness ==
    /\ pc = "done"
    /\ script = "compare_report"
    /\ t_sim = Fin(5, 2)
    /\ t_real = Fin(2, 1)
    /\ error = Fin(1, 4)

\* C3: wherever an error has been computed from a pair whose minimum is 0, the
\* outcome is a raised error or the infinite sentinel (never a finite value, and
\* nothing else).
C3_ZeroMinimumRaisesOrInf ==
    (/\ script \in {"h5_report", "h5_calc", "polybench_report", "h4_report",
                    "two_core", "compare_report", "compare_inline"}
     /\ error.k # "none"
     /\ IsZero(FMin(t_sim, t_real))) =>
        error.k \in {"raise", "inf"}

\* C4: the combined H5 error of the calculator is the count-weighted mean of the
\* fixed microbenchmark pair (0.144, 11) and the PolyBench mean over the
\* benchmarks compared: combined * (11 + count) = 0.144 * 11 + polybench_avg * count,
\* with polybench_avg * count the sum of the PolyBench errors.
C4_CombinedIsCountWeightedMean ==
    (pc = "done" /\ script = "h5_calc") =>
        /\ n_poly = all_errors.len
        /\ n_poly > 0
        /\ FMul(polybench_avg, Fin(n_poly, 1)) = all_errors.sum
        /\ FMul(aggregate, Fin(11 + n_poly, 1))
              = FAdd(FMul(Fin(144, 1000), Fin(11, 1)),
                     FMul(polybench_avg, Fin(n_poly, 1)))

\* C4 witness: 7 PolyBench benchmarks of mean error 0.10 combine with (0.144, 11)
\* to (0.144 * 11 + 0.10 * 7) / 18 = 571/4500, not to 0.122.
C4_Witness ==
    /\ pc = "done"
    /\ script = "h5_calc"
    /\ n_poly = 7
    /\ polybench_avg = Fin(1, 10)
    /\ aggregate = Fin(571, 4500)
    /\ aggregate # Fin(122, 1000)

C6_MissingDataNeverMet ==
    (/\ pc \in {"done", "crashed"}
     /\ script \in {"polybench_report", "h5_report"}
     /\ n_micro + n_poly = 0) =>
        (exit_status # 0 /\ ~accuracy_met)

----------------------------------------------------------------------------
(* The claims about trimmed_mean (checked under SpecStats). *)

\* The least and the greatest element of a non-empty sequence of integers.
MinOf(xs) == CHOOSE v \in {xs[i] : i \in 1..Len(xs)} :
                 \A i \in 1..Len(xs) : v <= xs[i]
MaxOf(xs) == CHOOSE v \in {xs[i] : i \in 1..Len(xs)} :
                 \A i \in 1..Len(xs) : v >= xs[i]

\* The sum of xs after k times removing one least and one greatest element.
RECURSIVE SumAfterTrim(_, _, _)
SumAfterTrim(total, xs, k) ==
    IF k = 0 THEN total
    ELSE LET lo == MinOf(xs)
             iLo == CHOOSE i \in 1..Len(xs) : xs[i] = lo
             ys == SubSeq(xs, 1, iLo - 1) \o SubSeq(xs, iLo + 1, Len(xs))
             hi == MaxOf(ys)
             iHi == CHOOSE i \in 1..Len(ys) : ys[i] = hi
             zs == SubSeq(ys, 1, iHi - 1) \o SubSeq(ys, iHi + 1, Len(ys))
         IN  SumAfterTrim(total - lo - hi, zs, k - 1)

\* C7: for a non-empty list of n values and a trim fraction 0 <= f < 0.5,
\* trimmed_mean returns the mean of the values left after removing the
\* k = floor(n * f) smallest and the k largest; it is the plain mean when n < 3
\* or k = 0.
C7_TrimmedMean ==
    (/\ pc = "done"
     /\ script = "trimmed_mean"
     /\ Len(values) > 0
     /\ FLe(Zero, trim_percent)
     /\ FLt(trim_percent, Fin(1, 2))) =>
        LET n == Len(values)
            k == CHOOSE j \in 0..n :
                     /\ j * trim_percent.d <= n * trim_percent.n
                     /\ (j + 1) * trim_percent.d > n * trim_percent.n
        IN  /\ tm_result.k = "fin"
            /\ IF n < 3 \/ k = 0
               THEN tm_result = Fin(SumInts(values), n)
               ELSE tm_result = Fin(SumAfterTrim(SumInts(values), values, k), n - 2 * k)

\* C7 witness: trimmed_mean([100, 1, 5, 2, 4, 3], 0.2) has returned 3.5, the mean
\* of 2, 3, 4, 5.
C7_Witness ==
    /\ pc = "done"
    /\ script = "trimmed_mean"
    /\ values = <<100, 1, 5, 2, 4, 3>>
    /\ trim_percent = Fin(1, 5)
    /\ tm_result = Fin(7, 2)

----------------------------------------------------------------------------
(* The claims about simple_linear_regression (checked under SpecFit). *)

\* The fit has been attempted on the data of this run.
Fitted == script = "fit" /\ fit_result.k # "none"

\* The x-values hold at least two distinct numbers.
TwoDistinctX == \E i, j \in 1..Len(data_x) : data_x[i] # data_x[j]

C9_RSquaredRange ==
    (script = "fit_rounded" /\ fit_result.k # "none" /\ TwoDistinctX) =>
        /\ fit_result.k = "ok"
        /\ FLe(Zero, fit_result.r_squared)
        /\ FLe(fit_result.r_squared, Fin(1, 1))
        /\ (\A i, j \in 1..Len(data_y) : data_y[i] = data_y[j]) =>
               fit_result.r_squared = Zero

----------------------------------------------------------------------------
(* The claims about generate_benchmark and main (checked under SpecGen). *)

\* C11: a call of generate_benchmark for a registered template with an
\* iteration count above 2^32-1 raises the too-large error and returns no
\* text; no text was ever returned for such a count (nothing is cut to its
\* low 32 bits).
C11_TooLargeRaises ==
    /\ \A e \in gen_log : e.n.top <= 0
    /\ (/\ script = "generate"
        /\ gen_name \in DOMAIN BENCHMARK_TEMPLATES
        /\ gen_n # None
        /\ gen_n.top > 0)
       => (gen_out = ValueError /\ pc = "crashed")

C11_Witness ==
    /\ script = "generate"
    /\ gen_name = "reductiontree"
    /\ gen_n = Count(1, 1, 1)
    /\ gen_out = ValueError
    /\ gen_log # {}

\* C12: generate_benchmark is deterministic for 0 <= n <= 2^32-1: the
\* registry is never modified, two returns for the same (template, n) carry
\* the same text, and every returned text is the one a first call in a fresh
\* process returns for its arguments, whatever was called before.
C12_GenerateDeterministic ==
    /\ templates = BENCHMARK_TEMPLATES
    /\ \A e1, e2 \in gen_log :
          (e1.name = e2.name /\ e1.n = e2.n) => e1.text = e2.text
    /\ \A e \in gen_log :
          generate_benchmark(BENCHMARK_TEMPLATES, e.name, e.n)
            = [k |-> "text", text |-> e.text]

C12_Witness ==
    /\ script = "generate"
    /\ gen_out.k = "text"
    /\ \E e1, e2 \in gen_log :
          /\ e1.name = gen_name /\ e1.n = gen_n
          /\ e2.name = gen_name /\ e2.n # gen_n
          /\ e1.text # e2.text
    /\ \E e \in gen_log : e.name # gen_name

\* C13: an unregistered template name never leads to a build or a run: a
\* call of generate_benchmark for it raises, and main run with such a name
\* anywhere in its request exits with status 1 having generated and built
\* nothing and calibrated no benchmark.
C13_UnknownTemplateNeverBuilt ==
    /\ (/\ script = "generate"
        /\ gen_name # ""
        /\ gen_name \notin DOMAIN BENCHMARK_TEMPLATES)
       => (gen_out = KeyError /\ pc = "crashed")
    /\ (/\ script = "linear_calibration"
        /\ \E i \in 1..Len(requested) :
              requested[i] \notin DOMAIN BENCHMARK_TEMPLATES)
       => /\ builds = 0
          /\ results_n = 0
          /\ gen_log = {}
          /\ pc # "main_check" => (pc = "done" /\ exit_status = 1)

C13_Witness ==
    /\ script = "linear_calibration"
    /\ requested = << "arithmetic", "unknown" >>
    /\ pc = "done"
    /\ exit_status = 1

----------------------------------------------------------------------------
(* The claims about the two collectors (checked under SpecCollect). *)

Collecting == script \in {"build_and_run", "run_benchmark"}

IsExe(e) == e.tool = "benchmark"

\* C14: a collector that returns has invoked the executable exactly
\* warmup + runs times, every warmup invocation before every timed one, and
\* returns exactly runs durations, the i-th being the duration of the i-th
\* timed invocation.
C14_WarmupThenTimedInOrder ==
    (Collecting /\ collected.k = "return")
       => LET exe == SelectSeq(invoked, IsExe)
          IN  /\ Len(exe) = warmup + runs
              /\ \A i \in 1..Len(exe) :
                    exe[i].phase = IF i <= warmup THEN "warmup" ELSE "timed"
              /\ Len(collected.times) = runs
              /\ \A i \in 1..runs :
                    collected.times[i] = exe[warmup + i].duration

C14_Witness ==
    /\ script = "build_and_run"
    /\ collected.k = "return"
    /\ warmup = 2
    /\ collected.times = << 2, 1 >>

\* C15: an invocation of the executable (warmup or timed, in either
\* collector) that exits with a status other than the expected one is the
\* last invocation (no retry), is not timed into the sample, and makes the
\* collection fail: an error is raised and no durations are returned.
C15_UnexpectedExitFails ==
    Collecting =>
       \A i \in 1..Len(invoked) :
          (IsExe(invoked[i]) /\ invoked[i].returncode # expected)
             => /\ i = Len(invoked)
                /\ collected.k = "raise"
                /\ Len(times) < Len(SelectSeq(invoked, IsExe))

\* C16: when build_and_run has finished, by returning or by raising, the
\* temporary source, object and executable files are gone.
C16_TemporaryFilesRemoved ==
    (script = "build_and_run" /\ pc \in {"done", "crashed"})
       => files \cap {"benchmark.s", "benchmark.o", "benchmark"} = {}

C16_Witness ==
    /\ script = "build_and_run"
    /\ pc = "crashed"
    /\ collected = RuntimeError("Link failed: ", "error: undefined symbol")
    /\ files = {}

\* C17: a non-zero status of the assembler raises an error carrying the
\* assembler's diagnostic text and nothing is invoked after it (no linker,
\* no executable); a non-zero status of the linker raises an error carrying
\* the linker's diagnostic text and the executable is never invoked.
C17_BuildFailureStopsPipeline ==
    script = "build_and_run" =>
       \A i \in 1..Len(invoked) :
          /\ (invoked[i].tool = "as" /\ invoked[i].returncode # 0)
                => /\ i = Len(invoked)
                   /\ collected.k = "raise"
                   /\ collected.message = << "Assembly failed: ", invoked[i].stderr >>
                   /\ \A j \in 1..Len(invoked) :
                         invoked[j].tool \notin {"ld", "benchmark"}
          /\ (invoked[i].tool = "ld" /\ invoked[i].returncode # 0)
                => /\ i = Len(invoked)
                   /\ collected.k = "raise"
                   /\ collected.message = << "Link failed: ", invoked[i].stderr >>
                   /\ \A j \in 1..Len(invoked) : ~IsExe(invoked[j])

C17_Witness ==
    /\ script = "build_and_run"
    /\ Len(invoked) = 1
    /\ invoked[1].tool = "as"
    /\ invoked[1].returncode = 1
    /\ collected = RuntimeError("Assembly failed: ", "error: unknown directive")

----------------------------------------------------------------------------
(* The claims about the scaling analysis (checked under SpecScan). *)

\* C18: analyze_scaling_correlation called with fewer than 3 points raises
\* and returns no ScalingAnalysis (every returned analysis holds at least 3
\* points), and a scan that gathered fewer than 3 successful measurements
\* ends with an error raised and exit status 1.
C18_FewerThanThreePointsFails ==
    /\ analysis.k = "return" => Len(analysis.scaling_points) >= 3
    /\ (/\ script = "analyze_scaling_correlation"
        /\ analysis # NoResult
        /\ Len(passed) < 3)
       => (analysis.k = "raise" /\ pc = "crashed")
    /\ (/\ script = "incremental_testing_validation"
        /\ pc = "done"
        /\ Len(scaling_points) < 3)
       => (analysis.k = "raise" /\ exit_status = 1)

C18_Witness ==
    /\ script = "analyze_scaling_correlation"
    /\ Len(passed) = 2
    /\ analysis.k = "raise"
    /\ pc = "crashed"

\* C19: whatever the order of the 3 or more points passed, the
\* scaling_points of the returned ScalingAnalysis are the passed points in
\* ascending order of problem size, and the scaling factor is the ratio of
\* the simulation times of the last and the first of them (a largest and a
\* smallest point) divided by the cube of the ratio of their sizes.
C19_PointsAscendingFactorFromEnds ==
    analysis.k = "return"
       => LET sp    == analysis.scaling_points
              first == sp[1]
              last  == sp[Len(sp)]
              f     == first.problem_size
              l     == last.problem_size
          IN  /\ Len(sp) = Len(passed)
              /\ {sp[i] : i \in 1..Len(sp)} = {passed[i] : i \in 1..Len(passed)}
              /\ \A i, j \in 1..Len(sp) :
                    i < j => sp[i].problem_size <= sp[j].problem_size
              /\ \A i \in 1..Len(passed) :
                    f <= passed[i].problem_size /\ passed[i].problem_size <= l
              /\ analysis.scaling_factor =
                    FMul(PyDiv(last.simulation_time_sec, first.simulation_time_sec),
                         Fin(f * f * f, l * l * l))

C19_Witness ==
    /\ script = "analyze_scaling_correlation"
    /\ analysis.k = "return"
    /\ passed = << ScalingDataPoint(128, 5), ScalingDataPoint(64, 1),
                   ScalingDataPoint(96, 2) >>
    /\ analysis.scaling_factor = Fin(5, 8)

\* C20: analyze_scaling_correlation is pure: after a call the caller's list
\* of scaling points holds the same elements in the same order as when it
\* was passed.
C20_CallerListUnchanged ==
    (script \in {"analyze_scaling_correlation", "incremental_testing_validation"}
        /\ analysis # NoResult)
       => scaling_points = passed

\* C21: in the scan a measurement that fails at one size, for whatever
\* reason, adds no point for that size and the loop goes on past that size:
\* the remaining sizes are not given up.
C21_FailedMeasurementSkipped ==
    (script = "incremental_testing_validation"
        /\ measured.outcome \notin {"none", "point"})
       => /\ \A i \in 1..Len(scaling_points) :
                scaling_points[i].problem_size # POLYBENCH_SCALING_SIZES[measured.idx]
          /\ size_idx > measured.idx

----------------------------------------------------------------------------
(* The claims about the QA validation (checked under SpecQA). *)

\* C22: when a full-suite run has ended, a benchmark with fewer than 3
\* scaling points has cost only its own result: every benchmark of the suite
\* has been validated, every one that has an analysis has its report, and
\* the suite summary has been written.
C22_FailedBenchmarkSparesSiblings ==
    (script = "diana_comprehensive_qa_validation"
        /\ qa_mode = "full_suite" /\ pc = "done")
       => /\ Len(all_results) = Len(SuiteBenchmarks)
          /\ \A i \in 1..Len(all_results) :
                all_results[i].has_analysis => all_results[i].benchmark \in reports
          /\ summary_written

\* C26: for a result with an analysis the status is FAILED exactly when a
\* critical criterion fails (R2 < 0.95, greatest accuracy error > 20, p-value
\* >= 0.05), WARNING only when a secondary criterion fails, and PASSED only
\* when in addition the velocity improvement is at least 3 and the regression
\* check has status PASS, so that the report of a PASSED result ticks every
\* item of its checklist.
C26_StatusFromCriteria ==
    (script = "diana_comprehensive_qa_validation"
        /\ qa_result # NoResult
        /\ qa_result.scaling_analysis.k = "analysis")
       => LET status    == qa_result.validation_status
              critical  == \/ FLt(qa_result.scaling_analysis.correlation_coefficient, Fin(19, 20))
                           \/ FLt(Fin(20, 1), qa_result.max_accuracy_error)
                           \/ FLe(Fin(1, 20), qa_result.scaling_analysis.p_value)
              secondary == \/ FLt(qa_result.velocity_improvement, Fin(3, 1))
                           \/ qa_result.performance_status # "PASS"
          IN  /\ status = "FAILED" <=> critical
              /\ status = "WARNING" <=> (~critical /\ secondary)
              /\ status = "PASSED" <=> (~critical /\ ~secondary)
              /\ (status = "PASSED" /\ pc # "qa_report"
                     /\ qa_result.benchmark \in reports)
                    => /\ checklist.correlation
                       /\ checklist.accuracy
                       /\ checklist.significance
                       /\ checklist.velocity
                       /\ checklist.performance

\* C23: in a calibration a measurement that fails at one iteration count (the
\* assembler or the linker fails) is dropped as a skipped point: it does not
\* abort the calibration of that benchmark, whose loop goes on to the
\* remaining counts.
C23_FailedPointSkipped ==
    (script = "calibrate_benchmark" /\ cal_failed > 0)
       => /\ cal_result.k # "raise"
          /\ pc = "done" => cal_pos > Len(cal_counts)

\* C25: in every CalibrationResult that calibrate_benchmark returns, for any
\* list of iteration counts passed, data_points holds one pair per requested
\* count, its first component iterations * instructions_per_iter, and the
\* instruction counts are strictly increasing along the list.
C25_DataPointsStrictlyIncreasing ==
    (script = "calibrate_benchmark" /\ cal_result.k = "CalibrationResult")
       => LET dp == cal_result.data_points
          IN  /\ Len(dp) = Len(cal_counts)
              /\ \A i \in 1..Len(dp) :
                    dp[i][1] = CountValue(cal_counts[i]) * instructions_per_iter(cal_name)
              /\ \A i \in 1..Len(dp), j \in 1..Len(dp) :
                    i < j => dp[i][1] < dp[j][1]

\* C24: every external process invocation is bounded by a timeout, so a
\* build_and_run call that has started eventually ends (it returns or an
\* exception leaves it) even when a child process never exits.
C24_RunTerminates ==
    (script = "build_and_run") ~> (pc \in {"done", "crashed"})

\* C27: run_incremental_validation makes at most 9 measurements; its loop
\* ends before the last size only when at least 5 points have been collected
\* and their R^2 is 0.95 or more; and an analysis it returns is over 3 to 9
\* points of pairwise distinct problem sizes.
C27_ScanStopsEarlyOnlyOnSuccess ==
    script = "incremental_testing_validation"
       => /\ measured.idx <= Len(POLYBENCH_SCALING_SIZES)
          /\ (pc \in {"sc_final", "done"}
                 /\ measured.idx < Len(POLYBENCH_SCALING_SIZES))
                => /\ Len(scaling_points) >= 5
                   /\ analysis.k = "return"
                   /\ pc = "sc_final"
                         => FLe(correlation_target, analysis.correlation_coefficient)
          /\ (pc = "done" /\ analysis.k = "return")
                => LET pts == analysis.scaling_points
                   IN  /\ Len(pts) >= 3
                       /\ Len(pts) <= 9
                       /\ \A i \in 1..Len(pts), j \in 1..Len(pts) :
                             i # j => pts[i].problem_size # pts[j].problem_size

\* C28: run_multicore_simulation returns a dictionary of averaged results or
\* None and never raises on bad simulator output: a run whose output has no
\* parsable "Total CPI" line adds nothing to the results and the loop goes
\* on, and with no parsed result at all the function returns None.
C28_NeverRaisesOnBadOutput ==
    script = "run_multicore_simulation"
       => /\ mc_result.k \in {"none", "None", "dict"}
          /\ (pc = "done" /\ mc_result.k = "dict")
                => Len(simulation_results) + mc_unparsed = mc_runs
          /\ (pc = "done" /\ simulation_results = << >>) => mc_result.k = "None"

\* C30: whenever build_statistical_model returns a model for a core count,
\* the samples used are more than the 5 fitted coefficients, so that the
\* residual standard error stored with the model is a finite number; with
\* fewer samples it returns None and stores nothing.
C30_ModelHasResidualFreedom ==
    (script = "build_statistical_model" /\ pc = "done")
       => /\ stat_model.k = "StatisticalModel"
                => /\ stat_model.sample_size - stat_model.coefficients >= 1
                   /\ stat_model.residual_std_error.k = "fin"
          /\ h4_results[model_core] <= Len(feature_names)
                => /\ stat_model.k = "None"
                   /\ statistical_models = {}

\* C29: whenever load_iterations_asm(n, reg) returns without error, every
\* immediate it emits is in 0..65535 and the lines load exactly n: the movz
\* immediate is n mod 2^16, the movk immediate (shifted left by 16) is the
\* rest, and movk is absent only when n < 2^16.
C29_ImmediatesLoadExactlyN ==
    (script = "generate" /\ gen_n # None)
       => LET out == load_iterations_asm(gen_n, "x11")
          IN  out.k = "text"
                 => /\ \A i \in 1..Len(out.lines) : out.lines[i].imm \in 0..65535
                    /\ gen_n.top = 0
                    /\ out.lines[1].op = "movz"
                    /\ out.lines[1].imm = gen_n.low
                    /\ IF Len(out.lines) = 1
                       THEN gen_n.high = 0
                       ELSE /\ Len(out.lines) = 2
                            /\ out.lines[2].op = "movk"
                            /\ out.lines[2].lsl = 16
                            /\ out.lines[2].imm = gen_n.high

====
